---- MODULE Spec2Model ----
(***************************************************************************)
(* Model of the sLLM log pipeline: the watermark-tracked pull cycle of     *)
(* DataProcessor (data_processor.py), its persisted documents, the         *)
(* rule-based classification entry points and the FineTuner history load.  *)
(***************************************************************************)
EXTENDS Integers, Sequences, FiniteSets, TLC

\* ------------------------------------------------------------------ bounds
\* The wall clock runs over 0..MaxTime (one tick is one clock reading).
MaxTime == 2

\* ------------------------------------------------------- program constants
\* timedelta(days=1), in clock ticks.
Day == 1
\* "size": 1000 of the three backend queries.
PageSize == 1000

Sources == {"application_logs", "nginx_access", "system_metrics"}

\* The threads that may call process_new_logs (request handlers run it
\* synchronously, with no lock).
Threads == {"t1", "t2"}
MainThread == "t1"

\* ------------------------------------------------------------ Python values
\* A field value of a record: a number, a string, None, or the key is absent.
Num(n) == [k |-> "num", s |-> "", n |-> n]
Str(x) == [k |-> "str", s |-> x, n |-> 0]
None == [k |-> "none", s |-> "", n |-> 0]
Missing == [k |-> "missing", s |-> "", n |-> 0]

\* dict.get(key) and dict.get(key, default)
Get(v) == IF v = Missing THEN None ELSE v
GetD(v, d) == IF v = Missing THEN d ELSE v

\* Python truthiness of a value
Truthy(v) == \/ v.k = "num" /\ v.n # 0
             \/ v.k = "str" /\ v.s # ""

\* An ordering comparison with an int raises TypeError unless the value is a number.
IsNum(v) == v.k = "num"

Min(a, b) == IF a < b THEN a ELSE b

\* the concatenation of a sequence of sequences (list.extend in a loop)
RECURSIVE Flatten(_)
Flatten(seqs) == IF seqs = <<>> THEN <<>> ELSE Head(seqs) \o Flatten(Tail(seqs))

\* seq[:n]
Take(seq, n) == SubSeq(seq, 1, Min(Len(seq), n))

EmptyMap == [s \in {} |-> 0]

\* ------------------------------------------------------------------ records
AppRec(ts, level, msg) == [timestamp |-> Num(ts), service |-> Str("svc"), log_level |-> level, message |-> msg, stack_trace |-> Missing]

NginxRec(ts, status, rt, path) == [timestamp |-> Num(ts), client_ip |-> Str("10.0.0.1"), request_method |-> Str("GET"), request_path |-> path, status_code |-> status, response_time |-> rt]

MetricRec(ts, host, cpu, mem, disk) == [timestamp |-> Num(ts), host |-> host, cpu_usage |-> cpu, memory_usage |-> mem, disk_usage |-> disk]

\* --------------------------------------------- _process_application_logs
AppLogText(log) == <<Get(log.timestamp), Get(log.service), Get(log.log_level), Get(log.message)>>

ErrorExample(log) == [task_type |-> "anomaly",
                      log_text |-> AppLogText(log) \o (IF Truthy(Get(log.stack_trace)) THEN <<Get(log.stack_trace)>> ELSE <<>>),
                      anomaly_status |-> "critical",
                      detected_issues |-> <<"error occurred">>,
                      explanation |-> <<Get(log.service), Get(log.message)>>]

WarningExample(log) == [task_type |-> "anomaly",
                        log_text |-> AppLogText(log),
                        anomaly_status |-> "warning",
                        detected_issues |-> <<"warning occurred">>,
                        explanation |-> <<Get(log.service), Get(log.message)>>]

\* FATAL records are taken for errors as well.
ErrorLogsAndFatal(logs) == SelectSeq(logs, LAMBDA l: Get(l.log_level) \in {Str("ERROR"), Str("FATAL")})

ErrorLogs(logs) == SelectSeq(logs, LAMBDA l: Get(l.log_level) = Str("ERROR"))
WarningLogs(logs) == SelectSeq(logs, LAMBDA l: Get(l.log_level) = Str("WARNING"))
InfoLogs(logs) == SelectSeq(logs, LAMBDA l: Get(l.log_level) = Str("INFO"))

\* messages = [log.get('message', '') for log in info_logs if log.get('message')]
InfoMessages(info_logs) == (LET xs == SelectSeq(info_logs, LAMBDA l: Truthy(Get(l.message))) IN [idx \in 1..Len(xs) |-> LET l == xs[idx] IN GetD(l.message, Str(""))])

\* n_clusters = min(5, len(messages) // 2)
NClusters(messages) == Min(5, Len(messages) \div 2)

\* The vectorizer and KMeans are reached only with at least 10 INFO records
\* of which at least 10 carry a message.
ClusteringReached(logs) == Len(InfoLogs(logs)) >= 10 /\ Len(InfoMessages(InfoLogs(logs))) >= 10

\* The outcome of TfidfVectorizer + KMeans.fit_predict: it raised, or one
\* cluster label in 0..n_clusters-1 per message.
NoKMeans == [failed |-> TRUE, labels |-> <<>>]
KMeansOutcomes(logs) == IF ~ClusteringReached(logs) THEN {NoKMeans}
                        ELSE LET messages == InfoMessages(InfoLogs(logs))
                             IN  {NoKMeans} \cup
                                 (IF \A i \in 1..Len(messages): messages[i].k = "str"
                                  THEN {[failed |-> FALSE, labels |-> l] : l \in [1..Len(messages) -> 0..(NClusters(messages) - 1)]}
                                  ELSE {})

\* cluster_logs = [info_logs[i] for i, c in enumerate(clusters) if c == cluster_id]
RECURSIVE ClusterLogs(_, _, _, _)
ClusterLogs(info_logs, labels, cluster_id, i) == IF i > Len(labels) THEN <<>>
                                                  ELSE (IF labels[i] = cluster_id THEN <<info_logs[i]>> ELSE <<>>)
                                                       \o ClusterLogs(info_logs, labels, cluster_id, i + 1)

ClusterSummary(cluster_logs) == [task_type |-> "summary",
                                 original_text |-> (LET xs == Take(cluster_logs, 10) IN [idx \in 1..Len(xs) |-> LET l == xs[idx] IN <<Get(l.timestamp), Get(l.service), Get(l.message)>>]),
                                 summary |-> <<Get(cluster_logs[1].service), Num(Len(cluster_logs))>>]

\* for cluster_id in range(n_clusters): one summary per non-empty cluster
RECURSIVE ClusterSummaries(_, _, _, _)
ClusterSummaries(info_logs, labels, cluster_id, n) == IF cluster_id >= n THEN <<>>
                                                       ELSE LET cluster_logs == ClusterLogs(info_logs, labels, cluster_id, 1)
                                                            IN  (IF cluster_logs # <<>> THEN <<ClusterSummary(cluster_logs)>> ELSE <<>>)
                                                                \o ClusterSummaries(info_logs, labels, cluster_id + 1, n)

InfoSummaries(logs, km) == IF ~ClusteringReached(logs) \/ km.failed THEN <<>>
                           ELSE ClusterSummaries(InfoLogs(logs), km.labels, 0, NClusters(InfoMessages(InfoLogs(logs))))

\* The clustering step is outside the try block: its exception leaves the
\* entry point.
process_application_logs_unguarded(logs, km) == [raises |-> ClusteringReached(logs) /\ km.failed,
                                                 out |-> IF logs = <<>> \/ (ClusteringReached(logs) /\ km.failed) THEN <<>>
                                                         ELSE (LET xs == ErrorLogs(logs) IN [idx \in 1..Len(xs) |-> ErrorExample(xs[idx])])
                                                              \o (LET xs == WarningLogs(logs) IN [idx \in 1..Len(xs) |-> WarningExample(xs[idx])])
                                                              \o InfoSummaries(logs, km)]

\* Returns [raises, out]: the application classifier raises nothing.
\* `km` is the outcome of the clustering step.
process_application_logs(logs, km) == [raises |-> FALSE,
                                       out |-> IF logs = <<>> THEN <<>>
                                               ELSE (LET xs == ErrorLogs(logs) IN [idx \in 1..Len(xs) |-> ErrorExample(xs[idx])])
                                                    \o (LET xs == WarningLogs(logs) IN [idx \in 1..Len(xs) |-> WarningExample(xs[idx])])
                                                    \o InfoSummaries(logs, km)]

\* --------------------------------------------------- _process_nginx_logs
StatusCode(log) == GetD(log.status_code, Num(0))
ResponseTime(log) == GetD(log.response_time, Num(0))

NginxLogText(log) == <<Get(log.timestamp), Get(log.client_ip), Get(log.request_method), Get(log.request_path), Get(log.status_code), Get(log.response_time)>>

NginxErrorLogs(logs) == SelectSeq(logs, LAMBDA l: StatusCode(l).n >= 500)
NginxWarningLogs(logs) == SelectSeq(logs, LAMBDA l: 400 <= StatusCode(l).n /\ StatusCode(l).n < 500)
SuccessLogs(logs) == SelectSeq(logs, LAMBDA l: 200 <= StatusCode(l).n /\ StatusCode(l).n < 400)
SlowLogs(logs) == SelectSeq(SuccessLogs(logs), LAMBDA l: ResponseTime(l).n > 1000)

\* The comparisons of lines 365-367 and 405 are outside any try block: a
\* status_code (of any record) or a response_time (of a success record) that
\* is not a number raises TypeError out of the classifier.
NginxRaises(logs) == \/ \E i \in 1..Len(logs): ~IsNum(StatusCode(logs[i]))
                     \/ \E i \in 1..Len(logs): /\ IsNum(StatusCode(logs[i]))
                                               /\ 200 <= StatusCode(logs[i]).n /\ StatusCode(logs[i]).n < 400
                                               /\ ~IsNum(ResponseTime(logs[i]))

ServerErrorExample(log) == [task_type |-> "anomaly",
                            log_text |-> NginxLogText(log),
                            anomaly_status |-> "critical",
                            detected_issues |-> <<"server error", Get(log.status_code)>>,
                            explanation |-> <<Get(log.status_code), Get(log.request_path)>>]

ClientErrorExample(log) == [task_type |-> "anomaly",
                            log_text |-> NginxLogText(log),
                            anomaly_status |-> "warning",
                            detected_issues |-> <<"client error", Get(log.status_code)>>,
                            explanation |-> <<Get(log.status_code), Get(log.request_path)>>]

SlowExample(log) == [task_type |-> "anomaly",
                     log_text |-> NginxLogText(log),
                     anomaly_status |-> "warning",
                     detected_issues |-> <<"response time delay">>,
                     explanation |-> <<Get(log.response_time), Get(log.request_path)>>]

\* path = log.get('request_path', ''); if path: path_counts[path] += 1
\* The keys of path_counts, in first-seen (dict insertion) order.
RECURSIVE PathKeys(_, _)
PathKeys(logs, seen) == IF logs = <<>> THEN seen
                        ELSE LET path == GetD(Head(logs).request_path, Str(""))
                             IN  PathKeys(Tail(logs),
                                          IF Truthy(path) /\ ~\E i \in 1..Len(seen): seen[i] = path
                                          THEN Append(seen, path) ELSE seen)

PathCount(logs, path) == Len(SelectSeq(logs, LAMBDA l: GetD(l.request_path, Str("")) = path))

\* An insertion that puts an item before the items of equal count.
RECURSIVE InsertBeforeEqual(_, _)
InsertBeforeEqual(sorted, item) == IF sorted = <<>> THEN <<item>>
                                   ELSE IF item[2] >= Head(sorted)[2] THEN <<item>> \o sorted
                                   ELSE <<Head(sorted)>> \o InsertBeforeEqual(Tail(sorted), item)

\* sorted(items, key=count, reverse=True): stable, so equal counts keep
\* their insertion order.
RECURSIVE InsertByCount(_, _)
InsertByCount(sorted, item) == IF sorted = <<>> THEN <<item>>
                               ELSE IF item[2] > Head(sorted)[2] THEN <<item>> \o sorted
                               ELSE <<Head(sorted)>> \o InsertByCount(Tail(sorted), item)

RECURSIVE SortByCount(_, _)
SortByCount(items, acc) == IF items = <<>> THEN acc
                           ELSE SortByCount(Tail(items), InsertByCount(acc, Head(items)))

TopPaths(success_logs) == Take(SortByCount((LET xs == PathKeys(success_logs, <<>>) IN [idx \in 1..Len(xs) |-> LET p == xs[idx] IN <<p, PathCount(success_logs, p)>>]), <<>>), 5)

TrafficSummary(success_logs) == [task_type |-> "summary",
                                 original_text |-> (LET xs == Take(success_logs, 20) IN [idx \in 1..Len(xs) |-> NginxLogText(xs[idx])]),
                                 summary |-> <<Num(Len(success_logs)), TopPaths(success_logs)>>]

process_nginx_logs(logs) == IF logs = <<>> THEN [raises |-> FALSE, out |-> <<>>]
                            ELSE IF NginxRaises(logs) THEN [raises |-> TRUE, out |-> <<>>]
                            ELSE [raises |-> FALSE,
                                  out |-> (LET xs == NginxErrorLogs(logs) IN [idx \in 1..Len(xs) |-> ServerErrorExample(xs[idx])])
                                          \o (LET xs == NginxWarningLogs(logs) IN [idx \in 1..Len(xs) |-> ClientErrorExample(xs[idx])])
                                          \o (LET xs == SlowLogs(logs) IN [idx \in 1..Len(xs) |-> SlowExample(xs[idx])])
                                          \o (IF SuccessLogs(logs) # <<>> /\ TopPaths(SuccessLogs(logs)) # <<>>
                                              THEN <<TrafficSummary(SuccessLogs(logs))>> ELSE <<>>)]

\* ------------------------------------------------ _process_system_metrics
HostOf(m) == GetD(m.host, Str("unknown"))
Cpu(m) == GetD(m.cpu_usage, Num(0))
Mem(m) == GetD(m.memory_usage, Num(0))
Disk(m) == GetD(m.disk_usage, Num(0))

\* The keys of host_metrics, in first-seen (dict insertion) order.
RECURSIVE HostKeys(_, _)
HostKeys(metrics, seen) == IF metrics = <<>> THEN seen
                           ELSE HostKeys(Tail(metrics),
                                         IF \E i \in 1..Len(seen): seen[i] = HostOf(Head(metrics))
                                         THEN seen ELSE Append(seen, HostOf(Head(metrics))))

HostData(metrics, host) == SelectSeq(metrics, LAMBDA m: HostOf(m) = host)

\* The threshold comparisons of lines 488, 505 and 522 are outside the try
\* block: a usage value that is not a number raises TypeError.
MetricsRaises(metrics) == \E i \in 1..Len(metrics): ~IsNum(Cpu(metrics[i])) \/ ~IsNum(Mem(metrics[i])) \/ ~IsNum(Disk(metrics[i]))

MetricLogText(m, host) == <<Get(m.timestamp), host, Get(m.cpu_usage), Get(m.memory_usage), Get(m.disk_usage)>>

CpuExample(m, host) == [task_type |-> "anomaly",
                        log_text |-> MetricLogText(m, host),
                        anomaly_status |-> "warning",
                        detected_issues |-> <<"CPU usage high">>,
                        explanation |-> <<host, Get(m.cpu_usage)>>]

MemExample(m, host) == [task_type |-> "anomaly",
                        log_text |-> MetricLogText(m, host),
                        anomaly_status |-> "critical",
                        detected_issues |-> <<"memory usage high">>,
                        explanation |-> <<host, Get(m.memory_usage)>>]

DiskExample(m, host) == [task_type |-> "anomaly",
                         log_text |-> MetricLogText(m, host),
                         anomaly_status |-> "warning",
                         detected_issues |-> <<"disk usage high">>,
                         explanation |-> <<host, Get(m.disk_usage)>>]

\* The text of the summary names the host and the number of records; the
\* three averages are the output of pandas and are not part of the model.
HostSummary(host, host_data) == [task_type |-> "summary",
                                 original_text |-> <<host>> \o (LET xs == Take(host_data, 20) IN [idx \in 1..Len(xs) |-> LET m == xs[idx] IN <<Get(m.timestamp), Get(m.cpu_usage), Get(m.memory_usage), Get(m.disk_usage)>>]),
                                 summary |-> <<host, Num(Len(host_data))>>]

\* The summary of a host is attempted from nine records on.
SummaryReachedAtNine(host_data) == Len(host_data) >= 9

\* The summary of a host is attempted with at least 10 records.
SummaryReached(host_data) == Len(host_data) >= 10

\* `rs` is the set of hosts whose DataFrame / to_datetime / resample / mean
\* chain completed with a non-empty hourly table.
HostExamples(host, host_data, rs) == (LET xs == SelectSeq(host_data, LAMBDA m: Cpu(m).n > 80) IN [idx \in 1..Len(xs) |-> LET m == xs[idx] IN CpuExample(m, host)])
                                     \o (LET xs == SelectSeq(host_data, LAMBDA m: Mem(m).n > 90) IN [idx \in 1..Len(xs) |-> LET m == xs[idx] IN MemExample(m, host)])
                                     \o (LET xs == SelectSeq(host_data, LAMBDA m: Disk(m).n > 85) IN [idx \in 1..Len(xs) |-> LET m == xs[idx] IN DiskExample(m, host)])
                                     \o (IF /\ SummaryReached(host_data)
                                            /\ \E i \in 1..Len(host_data): host_data[i].timestamp # Missing
                                            /\ host \in rs
                                         THEN <<HostSummary(host, host_data)>> ELSE <<>>)

\* pd.to_datetime on a timestamp: a string that is no date raises (the
\* timestamps that are dates are the numbers of the model; None and a
\* missing key become NaT).
TimestampParses(m) == Get(m.timestamp).k # "str"

\* The outcomes of the resampling step: any set of the hosts that reach it
\* with timestamps that all parse (whether resample('H').mean() completes on
\* a frame with a text column or with NaT in its index depends on the pandas
\* release, which the repository does not pin).
ResampleOutcomes(metrics) == SUBSET {h \in {HostOf(metrics[i]) : i \in 1..Len(metrics)} : /\ SummaryReached(HostData(metrics, h))
                                                                                            /\ \A i \in 1..Len(metrics): HostOf(metrics[i]) = h => TimestampParses(metrics[i])}

process_system_metrics(metrics, rs) == IF metrics = <<>> THEN [raises |-> FALSE, out |-> <<>>]
                                       ELSE IF MetricsRaises(metrics) THEN [raises |-> TRUE, out |-> <<>>]
                                       ELSE [raises |-> FALSE,
                                             out |-> Flatten((LET xs == HostKeys(metrics, <<>>) IN [idx \in 1..Len(xs) |-> LET h == xs[idx] IN HostExamples(h, HostData(metrics, h), rs)]))]

\* -------------------------------------------------------------- documents
\* A persisted document: it is absent, or its content does not parse
\* (json.load raises), or it parses to `data`.
Absent == [st |-> "absent", data |-> <<>>]
Corrupt == [st |-> "corrupt", data |-> <<>>]
Doc(data) == [st |-> "ok", data |-> data]

\* datetime.isoformat() / datetime.fromisoformat(): an ISO-8601 string that
\* carries the instant, or a string that is no ISO-8601 instant.
Iso(t) == [iso |-> TRUE, t |-> t]
NotIso == [iso |-> FALSE, t |-> 0]
isoformat(t) == Iso(t)

\* The outcome of writing a document with open(path, 'w') + json.dump:
\* written; open() failed (the document is untouched); the write failed
\* after open() truncated the file (what is left does not parse).
WriteOutcomes == {"ok", "open_failed", "write_failed"}
Written(doc, data, outcome) == CASE outcome = "ok" -> Doc(data)
                                 [] outcome = "open_failed" -> doc
                                 [] outcome = "write_failed" -> Corrupt

\* default_time = datetime.now() - timedelta(days=1), for all three sources
DefaultLastProcessed(t) == [s \in Sources |-> t - Day]

\* The handler of lines 64-65 is missing: a document that does not parse raises.
load_last_processed_unguarded(doc, t) == IF doc.st = "ok" /\ \A k \in DOMAIN doc.data: doc.data[k].iso
                                         THEN [raises |-> FALSE, value |-> [k \in DOMAIN doc.data |-> doc.data[k].t]]
                                         ELSE IF doc.st = "absent" THEN [raises |-> FALSE, value |-> DefaultLastProcessed(t)]
                                         ELSE [raises |-> TRUE, value |-> EmptyMap]

\* _load_last_processed at clock reading t: [raises, value]
load_last_processed(doc, t) == IF doc.st = "ok" /\ \A k \in DOMAIN doc.data: doc.data[k].iso
                               THEN [raises |-> FALSE, value |-> [k \in DOMAIN doc.data |-> doc.data[k].t]]
                               ELSE [raises |-> FALSE, value |-> DefaultLastProcessed(t)]

\* _save_last_processed: the document after the call (failures are swallowed)
save_last_processed(doc, wm, outcome) == Written(doc, [k \in DOMAIN wm |-> isoformat(wm[k])], outcome)

\* The results are appended to the document instead of replacing it.
save_processed_data_appending(doc, data, outcome) == Written(doc, (IF doc.st = "ok" THEN doc.data ELSE <<>>) \o data, outcome)

\* _save_processed_data
save_processed_data(doc, data, outcome) == Written(doc, data, outcome)

\* get_latest_processed_data on a document: [raises, value]
load_processed_data(doc) == IF doc.st = "ok" THEN [raises |-> FALSE, value |-> doc.data]
                            ELSE [raises |-> FALSE, value |-> <<>>]

\* FineTuner._load_fine_tuning_history: [raises, value]
load_fine_tuning_history(doc) == IF doc.st = "ok" THEN [raises |-> FALSE, value |-> doc.data]
                                 ELSE [raises |-> FALSE, value |-> <<>>]

\* ------------------------------------------------------------------ state
VARIABLES clock, es_client, index, last_processed, last_processed_file, processed_data_file, fine_tuning_history, fine_tuning_history_file, load_raised, log_data, pc, now, app_logs, nginx_logs, system_metrics, all_data, ret, exc, queries, process_calls, wm_saves, data_saves, entry_wm, unsaved, must_cover

\* clock                     the wall clock (datetime.now())
\* es_client                 TRUE iff self.es_client is not None
\* index                     the backend's records, per source
\* last_processed            self.last_processed (source -> instant)
\* last_processed_file       the document last_processed.json
\* processed_data_file       the document processed_data.json
\* fine_tuning_history       FineTuner.fine_tuning_history
\* fine_tuning_history_file  the document fine_tuning_history.json
\* load_raised               TRUE iff a load of a document raised to its caller
\* log_data                  the value last returned by get_latest_processed_data
\* pc, now, app_logs, nginx_logs, system_metrics, all_data
\*                           per thread: position in and locals of process_new_logs
\* ret, exc                  per thread: the value returned, the exception raised
\* queries, process_calls, wm_saves, data_saves
\*                           per thread: the calls made by the current invocation
\* entry_wm                  per thread: self.last_processed on entry
\* unsaved                   the window starts of the latest cycle whose watermark
\*                           persist failed (empty once a persist succeeds)
\* must_cover                the value of unsaved at the last restart, until the
\*                           next cycle has advanced

shared == <<clock, es_client, index, last_processed, last_processed_file, processed_data_file, fine_tuning_history, fine_tuning_history_file, load_raised, log_data>>
locals == <<pc, now, app_logs, nginx_logs, system_metrics, all_data, ret, exc>>
calls == <<queries, process_calls, wm_saves, data_saves, entry_wm>>
vars == <<shared, locals, calls, unsaved, must_cover>>

NotRead == [read |-> FALSE, value |-> <<>>]

\* The stream consumer (kafka_consumer.py).
VARIABLES unix_time, running, consumer, kpc, batch_size, batch_timeout, messages_batch, last_process_time, message, arrival, flushed, lost, stop_called, starter, delivery

\* unix_time          time.time(), in ticks of 1/TicksPerSecond second
\* running            self.running
\* consumer           self.consumer: "none", "open" or "closed"
\* kpc                the position of the thread that runs start_consuming
\* batch_size, batch_timeout
\*                    KAFKA_BATCH_SIZE and KAFKA_BATCH_TIMEOUT (seconds)
\* messages_batch, last_process_time, message
\*                    the locals of start_consuming
\* arrival            the latest record handled: what the loop saw, what it did
\* flushed            the latest call of _process_messages_batch (`turn`
\*                    flips at every call; `invoked` lists the classifier
\*                    calls it made)
\* lost               the records buffered when the loop was left without
\*                    the flush of line 123
\* stop_called        TRUE once stop_consuming has been called
\* starter            the position of a second thread that calls start_consuming
\* delivery           when observed (`on`): the records appended at line 105 and
\*                    the batches passed to _process_messages_batch, in order

stream_vars == <<unix_time, running, consumer, kpc, batch_size, batch_timeout, messages_batch, last_process_time, message, arrival, flushed, lost, stop_called, starter, delivery>>

\* The environment's default settings, scaled down.
BatchSizes == {1, 2}
BatchTimeouts == {1, 2}

NoArrival == [seen |-> FALSE, size |-> 0, current_time |-> 0, last |-> 0, flush |-> FALSE]
NoFlush == [turn |-> FALSE, messages |-> <<>>, invoked |-> <<>>, swallowed |-> FALSE]
NoDelivery == [on |-> FALSE, received |-> <<>>, batches |-> <<>>]

\* The consumer as KafkaLogConsumer.__init__ leaves it (lines 38-44).
StreamIdle == /\ unix_time = 0
              /\ running = FALSE
              /\ consumer = "none"
              /\ kpc = "idle"
              /\ batch_size = 2
              /\ batch_timeout = 2
              /\ messages_batch = <<>>
              /\ last_process_time = 0
              /\ message = None
              /\ arrival = NoArrival
              /\ flushed = NoFlush
              /\ lost = <<>>
              /\ stop_called = FALSE
              /\ starter = "idle"
              /\ delivery = NoDelivery

\* The fine tuner (fine_tuning.py), called by the scheduled and the manual trigger.
VARIABLES tpc, training_data, results, attempts, tret, snapshot, appended, entry_history, entry_file, history_saves

\* tpc                per thread: the position in fine_tune
\* training_data, results
\*                    per thread: the argument and the local of fine_tune
\* attempts           per thread: the adaptation steps invoked, with their outcome
\* tret               per thread: the value returned ("none" before the return)
\* snapshot           per thread: what json.dump has serialised into the
\*                    buffer of the file object of _save_fine_tuning_history
\* appended           per thread: the history entries the call has appended
\* entry_history, entry_file
\*                    per thread: the history and its document on entry
\* history_saves      per thread: the outcomes of the steps of the call's
\*                    _save_fine_tuning_history

tune_vars == <<tpc, training_data, results, attempts, tret, snapshot, appended, entry_history, entry_file, history_saves>>

\* The fine tuner before any call.
TuneIdle == /\ tpc = [t \in Threads |-> "idle"]
            /\ training_data = [t \in Threads |-> <<>>]
            /\ results = [t \in Threads |-> <<>>]
            /\ attempts = [t \in Threads |-> <<>>]
            /\ tret = [t \in Threads |-> "none"]
            /\ snapshot = [t \in Threads |-> <<>>]
            /\ appended = [t \in Threads |-> <<>>]
            /\ entry_history = [t \in Threads |-> <<>>]
            /\ entry_file = [t \in Threads |-> Absent]
            /\ history_saves = [t \in Threads |-> <<>>]

\* The history query (FineTuner.get_last_fine_tuning_time).
VARIABLES query

\* query              the latest call: its task_type argument and its result

NoQuery == [asked |-> FALSE, task_type |-> "none", result |-> [none |-> TRUE, t |-> 0]]

\* A direct call of one of the three classification entry points.
VARIABLES classified

\* classified         the latest call: the entry point, its batch, the
\*                    outcome of its library step, whether it raised and
\*                    the examples it returned

NoClassified == [source |-> "none", logs |-> <<>>, lib |-> {}, raises |-> FALSE, out |-> <<>>]

\* The state outside the pull cycle.
other_vars == <<stream_vars, tune_vars, query, classified>>

\* --------------------------------------------------------------- backend
AppPool == <<AppRec(1, Str("INFO"), Str("started")), AppRec(0, Str("ERROR"), Str("boom"))>>
NginxPool == <<NginxRec(0, Num(200), Num(5), Str("/a")), NginxRec(1, Str("500"), Num(5), Str("/a"))>>
MetricPool == <<MetricRec(1, Str("h1"), Num(50), Num(50), Num(50)), MetricRec(0, Str("h1"), Num(95), Num(50), Num(50))>>

\* The contents the backend may hold: each index is empty or holds its pool
\* (the records of an index in the order they were stored).
IndexChoices == {[application_logs |-> a, nginx_access |-> n, system_metrics |-> m] : a \in {<<>>, AppPool}, n \in {<<>>, NginxPool}, m \in {<<>>, MetricPool}}

\* "sort": [{"timestamp": {"order": "asc"}}]: records of one timestamp keep
\* the order of the store
SortByTimestamp(hits) == SortSeq(hits, LAMBDA a, b: a.timestamp.n < b.timestamp.n)

\* The hits are returned in the order of the store.
SearchUnsorted(ix, start, end) == Take(SelectSeq(ix, LAMBDA r: start <= r.timestamp.n /\ r.timestamp.n < end), PageSize)

\* es_client.search: range gte start, lt end, ascending, at most PageSize hits
Search(ix, start, end) == Take(SortByTimestamp(SelectSeq(ix, LAMBDA r: start <= r.timestamp.n /\ r.timestamp.n < end)), PageSize)

\* _fetch_*: the hits of the query, or [] when the query raised
Fetched(ix, start, end, ok) == IF ok THEN Search(ix, start, end) ELSE <<>>

\* ------------------------------------------------------ process_new_logs
Idle(t) == pc[t] \in {"idle", "returned", "raised"}

\* lines 114-119: the client guard and the reading of the clock
process_new_logs(t) == /\ Idle(t)
                       /\ IF es_client
                          THEN /\ pc' = [pc EXCEPT ![t] = "fetch_app"]
                               /\ now' = [now EXCEPT ![t] = clock]
                          ELSE /\ pc' = [pc EXCEPT ![t] = "returned"]
                               /\ UNCHANGED now
                       /\ ret' = [ret EXCEPT ![t] = <<>>]
                       /\ exc' = [exc EXCEPT ![t] = "none"]
                       /\ app_logs' = [app_logs EXCEPT ![t] = <<>>]
                       /\ nginx_logs' = [nginx_logs EXCEPT ![t] = <<>>]
                       /\ system_metrics' = [system_metrics EXCEPT ![t] = <<>>]
                       /\ all_data' = [all_data EXCEPT ![t] = <<>>]
                       /\ queries' = [queries EXCEPT ![t] = <<>>]
                       /\ process_calls' = [process_calls EXCEPT ![t] = <<>>]
                       /\ wm_saves' = [wm_saves EXCEPT ![t] = <<>>]
                       /\ data_saves' = [data_saves EXCEPT ![t] = <<>>]
                       /\ entry_wm' = [entry_wm EXCEPT ![t] = last_processed]
                       /\ UNCHANGED <<shared, unsaved, must_cover>>

Query(s, t, ok) == [source |-> s, start |-> last_processed[s], end |-> now[t], ok |-> ok]

\* self.last_processed[s] raises KeyError when the loaded map lacks s
KeyError(t) == /\ pc' = [pc EXCEPT ![t] = "raised"]
               /\ exc' = [exc EXCEPT ![t] = "KeyError"]
               /\ UNCHANGED <<queries, app_logs, nginx_logs, system_metrics>>

\* line 122
fetch_application_logs(t) == /\ pc[t] = "fetch_app"
                             /\ IF "application_logs" \notin DOMAIN last_processed THEN KeyError(t)
                                ELSE \E ok \in BOOLEAN:
                                       /\ app_logs' = [app_logs EXCEPT ![t] = Fetched(index["application_logs"], last_processed["application_logs"], now[t], ok)]
                                       /\ queries' = [queries EXCEPT ![t] = Append(@, Query("application_logs", t, ok))]
                                       /\ pc' = [pc EXCEPT ![t] = "fetch_nginx"]
                                       /\ UNCHANGED <<exc, nginx_logs, system_metrics>>
                             /\ UNCHANGED <<shared, now, all_data, ret, process_calls, wm_saves, data_saves, entry_wm, unsaved, must_cover>>

\* line 125
fetch_nginx_logs(t) == /\ pc[t] = "fetch_nginx"
                       /\ IF "nginx_access" \notin DOMAIN last_processed THEN KeyError(t)
                          ELSE \E ok \in BOOLEAN:
                                 /\ nginx_logs' = [nginx_logs EXCEPT ![t] = Fetched(index["nginx_access"], last_processed["nginx_access"], now[t], ok)]
                                 /\ queries' = [queries EXCEPT ![t] = Append(@, Query("nginx_access", t, ok))]
                                 /\ pc' = [pc EXCEPT ![t] = "fetch_metrics"]
                                 /\ UNCHANGED <<exc, app_logs, system_metrics>>
                       /\ UNCHANGED <<shared, now, all_data, ret, process_calls, wm_saves, data_saves, entry_wm, unsaved, must_cover>>

\* line 128
fetch_system_metrics(t) == /\ pc[t] = "fetch_metrics"
                           /\ IF "system_metrics" \notin DOMAIN last_processed THEN KeyError(t)
                              ELSE \E ok \in BOOLEAN:
                                     /\ system_metrics' = [system_metrics EXCEPT ![t] = Fetched(index["system_metrics"], last_processed["system_metrics"], now[t], ok)]
                                     /\ queries' = [queries EXCEPT ![t] = Append(@, Query("system_metrics", t, ok))]
                                     /\ pc' = [pc EXCEPT ![t] = "advance"]
                                     /\ UNCHANGED <<exc, app_logs, nginx_logs>>
                           /\ UNCHANGED <<shared, now, all_data, ret, process_calls, wm_saves, data_saves, entry_wm, unsaved, must_cover>>

\* The start of the window each source was queried with in t's cycle.
WindowStarts(t) == [s \in {queries[t][i].source : i \in 1..Len(queries[t])} |-> (CHOOSE q \in {queries[t][i] : i \in 1..Len(queries[t])}: q.source = s).start]

\* Only the first source is advanced.
AdvancedFirstOnly(wm, n) == [s \in DOMAIN wm \cup Sources |-> IF s = "application_logs" THEN n ELSE IF s \in DOMAIN wm THEN wm[s] ELSE n - Day]

\* lines 131-133: the three assignments
Advanced(wm, n) == [s \in DOMAIN wm \cup Sources |-> IF s \in Sources THEN n ELSE wm[s]]

\* lines 131-134: the watermarks are overwritten and the map is written
advance_watermarks(t) == /\ pc[t] = "advance"
                         /\ \E outcome \in WriteOutcomes:
                              /\ last_processed' = Advanced(last_processed, now[t])
                              /\ last_processed_file' = save_last_processed(last_processed_file, Advanced(last_processed, now[t]), outcome)
                              /\ wm_saves' = [wm_saves EXCEPT ![t] = Append(@, outcome)]
                              /\ unsaved' = IF outcome = "ok" THEN EmptyMap ELSE WindowStarts(t)
                         /\ must_cover' = EmptyMap
                         /\ pc' = [pc EXCEPT ![t] = "classify"]
                         /\ UNCHANGED <<clock, es_client, index, processed_data_file, fine_tuning_history, fine_tuning_history_file, load_raised, log_data>>
                         /\ UNCHANGED <<now, app_logs, nginx_logs, system_metrics, all_data, ret, exc, queries, process_calls, data_saves, entry_wm>>

\* The access-log examples are put first.
CombinedNginxFirst(a, n, m) == n \o a \o m

\* lines 137-140: all_data of the three classifier results
Combined(a, n, m) == a \o n \o m

\* lines 137-140: a classifier that raises ends the invocation
classify(t) == /\ pc[t] = "classify"
               /\ \E km \in KMeansOutcomes(app_logs[t]), rs \in ResampleOutcomes(system_metrics[t]):
                    LET a == process_application_logs(app_logs[t], km)
                        n == process_nginx_logs(nginx_logs[t])
                        m == process_system_metrics(system_metrics[t], rs)
                        done == IF a.raises THEN <<"application_logs">>
                                ELSE IF n.raises THEN <<"application_logs", "nginx_access">>
                                ELSE <<"application_logs", "nginx_access", "system_metrics">>
                    IN  /\ process_calls' = [process_calls EXCEPT ![t] = done]
                        /\ IF a.raises \/ n.raises \/ m.raises
                           THEN /\ pc' = [pc EXCEPT ![t] = "raised"]
                                /\ exc' = [exc EXCEPT ![t] = "TypeError"]
                                /\ UNCHANGED all_data
                           ELSE /\ pc' = [pc EXCEPT ![t] = "save"]
                                /\ all_data' = [all_data EXCEPT ![t] = Combined(a.out, n.out, m.out)]
                                /\ UNCHANGED exc
               /\ UNCHANGED <<shared, now, app_logs, nginx_logs, system_metrics, ret, queries, wm_saves, data_saves, entry_wm, unsaved, must_cover>>

\* line 143: if all_data
SaveNeeded(data) == data # <<>>

\* lines 143-146: the results are written when there are any, and returned
save_and_return(t) == /\ pc[t] = "save"
                      /\ IF SaveNeeded(all_data[t])
                         THEN \E outcome \in WriteOutcomes:
                                /\ processed_data_file' = save_processed_data(processed_data_file, all_data[t], outcome)
                                /\ data_saves' = [data_saves EXCEPT ![t] = Append(@, outcome)]
                         ELSE UNCHANGED <<processed_data_file, data_saves>>
                      /\ ret' = [ret EXCEPT ![t] = all_data[t]]
                      /\ pc' = [pc EXCEPT ![t] = "returned"]
                      /\ UNCHANGED <<clock, es_client, index, last_processed, last_processed_file, fine_tuning_history, fine_tuning_history_file, load_raised, log_data>>
                      /\ UNCHANGED <<now, app_logs, nginx_logs, system_metrics, all_data, exc, queries, process_calls, wm_saves, entry_wm, unsaved, must_cover>>

\* get_latest_processed_data, as called by scheduled_fine_tuning (main.py:58)
get_latest_processed_data == /\ log_data' = [read |-> TRUE, value |-> load_processed_data(processed_data_file).value]
                             /\ load_raised' = load_processed_data(processed_data_file).raises
                             /\ UNCHANGED <<clock, es_client, index, last_processed, last_processed_file, processed_data_file, fine_tuning_history, fine_tuning_history_file>>
                             /\ UNCHANGED <<locals, calls, unsaved, must_cover>>

\* The wall clock advances.
Tick == /\ clock < MaxTime
        /\ clock' = clock + 1
        /\ UNCHANGED <<es_client, index, last_processed, last_processed_file, processed_data_file, fine_tuning_history, fine_tuning_history_file, load_raised, log_data>>
        /\ UNCHANGED <<locals, calls, unsaved, must_cover>>

\* The per-thread state of a thread that has called nothing yet.
NoThreadState(x) == [t \in Threads |-> x]

IdleLocals == /\ pc = NoThreadState("idle")
              /\ now = NoThreadState(0)
              /\ app_logs = NoThreadState(<<>>)
              /\ nginx_logs = NoThreadState(<<>>)
              /\ system_metrics = NoThreadState(<<>>)
              /\ all_data = NoThreadState(<<>>)
              /\ ret = NoThreadState(<<>>)
              /\ exc = NoThreadState("none")
              /\ queries = NoThreadState(<<>>)
              /\ process_calls = NoThreadState(<<>>)
              /\ wm_saves = NoThreadState(<<>>)
              /\ data_saves = NoThreadState(<<>>)
              /\ entry_wm = NoThreadState(EmptyMap)

\* The process is restarted: main.py:34-37 construct DataProcessor and
\* FineTuner anew, which load the watermark map and the history; the
\* threads of the old process are gone.
Restart == /\ es_client' \in BOOLEAN
           /\ last_processed' = load_last_processed(last_processed_file, clock).value
           /\ fine_tuning_history' = load_fine_tuning_history(fine_tuning_history_file).value
           /\ load_raised' = (load_last_processed(last_processed_file, clock).raises \/ load_fine_tuning_history(fine_tuning_history_file).raises)
           /\ log_data' = NotRead
           /\ pc' = NoThreadState("idle")
           /\ now' = NoThreadState(0)
           /\ app_logs' = NoThreadState(<<>>)
           /\ nginx_logs' = NoThreadState(<<>>)
           /\ system_metrics' = NoThreadState(<<>>)
           /\ all_data' = NoThreadState(<<>>)
           /\ ret' = NoThreadState(<<>>)
           /\ exc' = NoThreadState("none")
           /\ queries' = NoThreadState(<<>>)
           /\ process_calls' = NoThreadState(<<>>)
           /\ wm_saves' = NoThreadState(<<>>)
           /\ data_saves' = NoThreadState(<<>>)
           /\ entry_wm' = NoThreadState(EmptyMap)
           /\ must_cover' = IF unsaved # EmptyMap THEN unsaved ELSE must_cover
           /\ unsaved' = EmptyMap
           /\ UNCHANGED <<clock, index, last_processed_file, processed_data_file, fine_tuning_history_file>>

\* --------------------------------------------------------- specifications
\* The state after construction at clock 0. The watermark document is
\* absent, or left by another writer with one source only.
InitWatermarkDocs == {Absent, Doc([s \in {"application_logs"} |-> Iso(0)])}

Init == /\ clock = 0
        /\ es_client \in BOOLEAN
        /\ index \in IndexChoices
        /\ last_processed_file \in InitWatermarkDocs
        /\ last_processed = load_last_processed(last_processed_file, clock).value
        /\ processed_data_file = Absent
        /\ fine_tuning_history_file = Absent
        /\ fine_tuning_history = load_fine_tuning_history(fine_tuning_history_file).value
        /\ load_raised = FALSE
        /\ log_data = NotRead
        /\ IdleLocals
        /\ unsaved = EmptyMap
        /\ must_cover = EmptyMap
        /\ StreamIdle
        /\ TuneIdle
        /\ query = NoQuery
        /\ classified = NoClassified

\* One caller at a time: pull cycles run strictly one after another.
Next == \/ Tick /\ UNCHANGED other_vars
        \/ Restart /\ UNCHANGED other_vars
        \/ process_new_logs(MainThread) /\ UNCHANGED other_vars
        \/ fetch_application_logs(MainThread) /\ UNCHANGED other_vars
        \/ fetch_nginx_logs(MainThread) /\ UNCHANGED other_vars
        \/ fetch_system_metrics(MainThread) /\ UNCHANGED other_vars
        \/ advance_watermarks(MainThread) /\ UNCHANGED other_vars
        \/ classify(MainThread) /\ UNCHANGED other_vars
        \/ save_and_return(MainThread) /\ UNCHANGED other_vars
        \/ get_latest_processed_data /\ UNCHANGED other_vars

Spec == Init /\ [][Next]_vars

\* Two request threads call process_new_logs with no lock between them.
InitConc == /\ Init
            /\ es_client
            /\ index = [application_logs |-> AppPool, nginx_access |-> NginxPool, system_metrics |-> MetricPool]
            /\ last_processed_file = Absent

\* Each of the two threads serves one request.
FirstCall(t) == pc[t] = "idle" /\ process_new_logs(t)

StepOnce(t) == \/ FirstCall(t) /\ UNCHANGED other_vars
               \/ fetch_application_logs(t) /\ UNCHANGED other_vars
               \/ fetch_nginx_logs(t) /\ UNCHANGED other_vars
               \/ fetch_system_metrics(t) /\ UNCHANGED other_vars
               \/ advance_watermarks(t) /\ UNCHANGED other_vars
               \/ classify(t) /\ UNCHANGED other_vars
               \/ save_and_return(t) /\ UNCHANGED other_vars

NextConc == \/ Tick /\ UNCHANGED other_vars
            \/ \E t \in Threads: StepOnce(t)

SpecConc == InitConc /\ [][NextConc]_vars

\* A backend index with more records in one window than a page holds: n
\* records of instant 0 that differ in their message.
FullIndex(n) == [i \in 1..n |-> AppRec(0, Str("DEBUG"), Num(i))]

FetchIndexChoices == {[application_logs |-> a, nginx_access |-> NginxPool, system_metrics |-> MetricPool] : a \in {AppPool, FullIndex(PageSize + 1)}}

InitFetch == /\ clock = 0
             /\ es_client = TRUE
             /\ index \in FetchIndexChoices
             /\ last_processed_file = Absent
             /\ last_processed = load_last_processed(last_processed_file, clock).value
             /\ processed_data_file = Absent
             /\ fine_tuning_history_file = Absent
             /\ fine_tuning_history = load_fine_tuning_history(fine_tuning_history_file).value
             /\ load_raised = FALSE
             /\ log_data = NotRead
             /\ IdleLocals
             /\ unsaved = EmptyMap
             /\ must_cover = EmptyMap
             /\ StreamIdle
             /\ TuneIdle
             /\ query = NoQuery
             /\ classified = NoClassified

\* Pull cycles one after another, over the larger backend.
NextFetch == \/ Tick /\ UNCHANGED other_vars
             \/ process_new_logs(MainThread) /\ UNCHANGED other_vars
             \/ fetch_application_logs(MainThread) /\ UNCHANGED other_vars
             \/ fetch_nginx_logs(MainThread) /\ UNCHANGED other_vars
             \/ fetch_system_metrics(MainThread) /\ UNCHANGED other_vars
             \/ advance_watermarks(MainThread) /\ UNCHANGED other_vars
             \/ classify(MainThread) /\ UNCHANGED other_vars
             \/ save_and_return(MainThread) /\ UNCHANGED other_vars

SpecFetch == InitFetch /\ [][NextFetch]_vars

\* The persisted documents as a start of the process may find them.
WatermarkDocs == {Absent, Corrupt} \cup {Doc(m) : m \in UNION {[D -> {Iso(0), NotIso}] : D \in SUBSET Sources}}
SampleExample == ErrorExample(AppRec(0, Str("ERROR"), Str("boom")))
DataDocs == {Absent, Corrupt, Doc(<<>>), Doc(<<SampleExample>>)}
SampleEntry == [timestamp |-> Iso(0), task_type |-> "anomaly", data_count |-> 1, success |-> TRUE]
HistoryDocs == {Absent, Corrupt, Doc(<<>>), Doc(<<SampleEntry>>)}

InitLoad == /\ clock = 0
            /\ es_client = TRUE
            /\ index = [s \in Sources |-> <<>>]
            /\ last_processed_file \in WatermarkDocs
            /\ last_processed = load_last_processed(last_processed_file, clock).value
            /\ processed_data_file \in DataDocs
            /\ fine_tuning_history_file \in HistoryDocs
            /\ fine_tuning_history = load_fine_tuning_history(fine_tuning_history_file).value
            /\ load_raised = FALSE
            /\ log_data = NotRead
            /\ IdleLocals
            /\ unsaved = EmptyMap
            /\ must_cover = EmptyMap
            /\ StreamIdle
            /\ TuneIdle
            /\ query = NoQuery
            /\ classified = NoClassified

NextLoad == \/ Tick /\ UNCHANGED other_vars
            \/ Restart /\ UNCHANGED other_vars
            \/ get_latest_processed_data /\ UNCHANGED other_vars

SpecLoad == InitLoad /\ [][NextLoad]_vars

\* ------------------------------------------------------ the stream consumer
\* time.time() is read with a resolution finer than the second.
TicksPerSecond == 2
\* The stream is observed for StreamTicks ticks of the clock.
StreamTicks == 4

\* time.time() at the start of the process: later than any timeout after
\* the epoch, so that the first record is always flushed on arrival.
StartTime == TicksPerSecond * 2

\* int(time.time())
IntTime(ticks) == ticks \div TicksPerSecond

\* A record of the stream: message.value, with its `type` discriminator.
StreamRecord(type, fields) == [type |-> Str(type)] @@ fields

StreamRecords == {StreamRecord("application", AppRec(0, Str("ERROR"), Str("boom"))),
                  StreamRecord("nginx-access", NginxRec(0, Str("500"), Num(5), Str("/a"))),
                  StreamRecord("beats", MetricRec(0, Str("h1"), Num(95), Num(50), Num(50))),
                  StreamRecord("unknown", [note |-> Str("x")])}

\* lines 148-157: the records of one kind, in arrival order
OfType(messages, type) == SelectSeq(messages, LAMBDA m: Get(m.type) = Str(type))

\* lines 160-170: a classifier raised (the handler of line 174 swallows it)
BatchRaises(messages) == \/ process_application_logs(OfType(messages, "application"), NoKMeans).raises
                         \/ process_nginx_logs(OfType(messages, "nginx-access")).raises
                         \/ (~process_nginx_logs(OfType(messages, "nginx-access")).raises
                             /\ process_system_metrics(OfType(messages, "beats"), {}).raises)

\* lines 160-170: the classifiers called for one batch, in order, each with
\* its group; an exception of one call leaves the try block of line 140.
Invoked(messages) == LET a == OfType(messages, "application")
                         n == OfType(messages, "nginx-access")
                         m == OfType(messages, "beats")
                         app_raised == a # <<>> /\ process_application_logs(a, NoKMeans).raises
                         nginx_reached == ~app_raised /\ n # <<>>
                         nginx_raised == nginx_reached /\ process_nginx_logs(n).raises
                         metrics_reached == ~app_raised /\ ~nginx_raised /\ m # <<>>
                     IN  (IF a # <<>> THEN <<[group |-> "application", logs |-> a]>> ELSE <<>>)
                         \o (IF nginx_reached THEN <<[group |-> "access", logs |-> n]>> ELSE <<>>)
                         \o (IF metrics_reached THEN <<[group |-> "metrics", logs |-> m]>> ELSE <<>>)

\* The stream results are written as the latest results, as the pull cycle does.
process_messages_batch_persisting(messages) == /\ flushed' = [turn |-> ~flushed.turn, messages |-> messages, invoked |-> Invoked(messages), swallowed |-> BatchRaises(messages)]
                                               /\ processed_data_file' = Doc(process_application_logs(OfType(messages, "application"), NoKMeans).out)
                                               /\ UNCHANGED <<last_processed, last_processed_file>>

\* _process_messages_batch: the three groups are classified, the examples
\* are dropped; nothing is raised and nothing of the pull cycle is written.
process_messages_batch(messages) == /\ flushed' = [turn |-> ~flushed.turn, messages |-> messages, invoked |-> Invoked(messages), swallowed |-> BatchRaises(messages)]
                                    /\ UNCHANGED <<last_processed, last_processed_file, processed_data_file>>

\* The state of the pull cycle and of the fine tuner, which the stream
\* consumer has no access to.
pull_rest == <<clock, es_client, index, fine_tuning_history, fine_tuning_history_file, load_raised, log_data, locals, calls, unsaved, must_cover, tune_vars, query, classified>>
pull_store == <<last_processed, last_processed_file, processed_data_file>>

\* The record is put in front of the buffer.
AppendedInFront(batch, m) == <<m>> \o batch

\* line 105: messages_batch.append(message.value)
Appended(batch, m) == Append(batch, m)

\* The observation of the loop: a record appended at line 105, a batch
\* passed to _process_messages_batch at line 114 or 123.
Received(d, m) == IF d.on THEN [d EXCEPT !.received = Append(@, m)] ELSE d
Passed(d, batch) == IF d.on THEN [d EXCEPT !.batches = Append(@, batch)] ELSE d

\* The instant is taken at every record.
LastProcessTimeOfArrival(last, current_time, flush) == current_time

\* lines 112-116: last_process_time after a record was handled
LastProcessTime(last, current_time, flush) == IF flush THEN current_time ELSE last

\* The instant of the start is taken as the last flush.
InitialLastProcessTimeNow(current_time) == current_time

\* line 94: last_process_time = 0
InitialLastProcessTime(current_time) == 0

\* Only a full batch is flushed.
ShouldFlushWhenFull(size, current_time, last, bs, bt) == size >= bs

\* lines 109-112: batch_full or timeout_reached
ShouldFlush(size, current_time, last, bs, bt) == size >= bs \/ (current_time - last) >= bt

\* start_consuming, lines 77-96
start_consuming == /\ kpc = "idle"
                   /\ IF running
                      THEN /\ kpc' = "done"
                           /\ UNCHANGED <<running, consumer, messages_batch, last_process_time>>
                      ELSE \E created \in BOOLEAN:
                             IF created
                             THEN /\ running' = TRUE
                                  /\ consumer' = "open"
                                  /\ messages_batch' = <<>>
                                  /\ last_process_time' = InitialLastProcessTime(IntTime(unix_time))
                                  /\ kpc' = "waiting"
                             ELSE /\ running' = FALSE
                                  /\ consumer' = "none"
                                  /\ kpc' = "done"
                                  /\ UNCHANGED <<messages_batch, last_process_time>>
                   /\ UNCHANGED <<unix_time, batch_size, batch_timeout, message, arrival, flushed, lost, stop_called>>
                   /\ UNCHANGED <<pull_rest, pull_store>>
                   /\ UNCHANGED <<starter, delivery>>

\* line 99: the iterator of the consumer yields a record, ends, or raises
receive == /\ kpc = "waiting"
           /\ \/ \E m \in StreamRecords: message' = m /\ kpc' = "received" /\ UNCHANGED lost
              \/ message' = None /\ kpc' = "ended" /\ UNCHANGED lost
              \/ message' = None /\ kpc' = "finally" /\ lost' = messages_batch
           /\ UNCHANGED <<unix_time, running, consumer, batch_size, batch_timeout, messages_batch, last_process_time, arrival, flushed, stop_called>>
           /\ UNCHANGED <<pull_rest, pull_store>>
           /\ UNCHANGED <<starter, delivery>>

\* lines 100-119: one turn of the loop body
handle_message == /\ kpc = "received"
                  /\ IF ~running
                     THEN /\ kpc' = "ended"
                          /\ UNCHANGED <<messages_batch, last_process_time, arrival, flushed, pull_store, delivery>>
                     ELSE LET batch == Appended(messages_batch, message)
                              current_time == IntTime(unix_time)
                              flush == ShouldFlush(Len(batch), current_time, last_process_time, batch_size, batch_timeout)
                          IN  /\ kpc' = "waiting"
                              /\ arrival' = [seen |-> TRUE, size |-> Len(batch), current_time |-> current_time, last |-> last_process_time, flush |-> flush]
                              /\ IF flush
                                 THEN /\ process_messages_batch(batch)
                                      /\ messages_batch' = <<>>
                                      /\ delivery' = Passed(Received(delivery, message), batch)
                                 ELSE /\ messages_batch' = batch
                                      /\ delivery' = Received(delivery, message)
                                      /\ UNCHANGED <<flushed, pull_store>>
                              /\ last_process_time' = LastProcessTime(last_process_time, current_time, flush)
                  /\ message' = None
                  /\ UNCHANGED <<unix_time, running, consumer, batch_size, batch_timeout, lost, stop_called>>
                  /\ UNCHANGED pull_rest
                  /\ UNCHANGED starter

\* lines 121-123: the remainder, after the loop has ended or was left by break
flush_remainder == /\ kpc = "ended"
                   /\ IF messages_batch # <<>>
                      THEN process_messages_batch(messages_batch) /\ delivery' = Passed(delivery, messages_batch)
                      ELSE UNCHANGED <<flushed, pull_store, delivery>>
                   /\ kpc' = "finally"
                   /\ UNCHANGED <<unix_time, running, consumer, batch_size, batch_timeout, messages_batch, last_process_time, message, arrival, lost, stop_called>>
                   /\ UNCHANGED pull_rest
                   /\ UNCHANGED starter

\* lines 127-131
close_consumer == /\ kpc = "finally"
                  /\ running' = FALSE
                  /\ consumer' = "closed"
                  /\ kpc' = "done"
                  /\ UNCHANGED <<unix_time, batch_size, batch_timeout, messages_batch, last_process_time, message, arrival, flushed, lost, stop_called>>
                  /\ UNCHANGED <<pull_rest, pull_store>>
                  /\ UNCHANGED <<starter, delivery>>

\* stop_consuming: the owning thread is joined for at most 5 seconds (and
\* not at all when it was started by main.py:129), whatever its position.
stop_consuming == /\ running' = FALSE
                  /\ stop_called' = TRUE
                  /\ UNCHANGED <<unix_time, consumer, kpc, batch_size, batch_timeout, messages_batch, last_process_time, message, arrival, flushed, lost>>
                  /\ UNCHANGED <<pull_rest, pull_store>>
                  /\ UNCHANGED <<starter, delivery>>

TickStream == /\ unix_time < StartTime + StreamTicks
              /\ unix_time' = unix_time + 1
              /\ UNCHANGED <<running, consumer, kpc, batch_size, batch_timeout, messages_batch, last_process_time, message, arrival, flushed, lost, stop_called>>
              /\ UNCHANGED <<pull_rest, pull_store>>
              /\ UNCHANGED <<starter, delivery>>

\* The process has started: startup_event has created the consumer thread.
InitStream == /\ clock = 0
              /\ es_client = TRUE
              /\ index = [s \in Sources |-> <<>>]
              /\ last_processed_file \in {Absent, Doc([s \in Sources |-> Iso(0)])}
              /\ last_processed = load_last_processed(last_processed_file, clock).value
              /\ processed_data_file \in {Absent, Doc(<<SampleExample>>)}
              /\ fine_tuning_history_file = Absent
              /\ fine_tuning_history = <<>>
              /\ load_raised = FALSE
              /\ log_data = NotRead
              /\ IdleLocals
              /\ unsaved = EmptyMap
              /\ must_cover = EmptyMap
              /\ unix_time = StartTime
              /\ running = FALSE
              /\ consumer = "none"
              /\ kpc = "idle"
              /\ batch_size \in BatchSizes
              /\ batch_timeout \in BatchTimeouts
              /\ messages_batch = <<>>
              /\ last_process_time = 0
              /\ message = None
              /\ arrival = NoArrival
              /\ flushed = NoFlush
              /\ lost = <<>>
              /\ stop_called = FALSE
              /\ starter = "idle"
              /\ delivery = NoDelivery
              /\ TuneIdle
              /\ query = NoQuery
              /\ classified = NoClassified

NextStream == \/ TickStream
              \/ start_consuming
              \/ receive
              \/ handle_message
              \/ flush_remainder
              \/ close_consumer
              \/ stop_consuming

all_vars == <<vars, other_vars>>

SpecStream == InitStream /\ [][NextStream]_all_vars

\* The consumer thread is scheduled, and the stream does not stay silent.
InitStreamFair == InitStream /\ last_processed_file = Absent /\ processed_data_file = Absent

SpecStreamFair == InitStreamFair /\ [][NextStream]_all_vars /\ WF_all_vars(start_consuming) /\ WF_all_vars(receive) /\ WF_all_vars(handle_message) /\ WF_all_vars(flush_remainder) /\ WF_all_vars(close_consumer)


\* A second call of start_consuming (by start_in_thread, whose guard of
\* line 192 sees no consumer_thread when the loop was started by
\* main.py:129, or by another thread): lines 77-79, the guard
start_again_check == /\ starter = "idle"
                     /\ starter' = IF running THEN "done" ELSE "checked"
                     /\ UNCHANGED <<unix_time, running, consumer, kpc, batch_size, batch_timeout, messages_batch, last_process_time, message, arrival, flushed, lost, stop_called>>
                     /\ UNCHANGED <<pull_rest, pull_store, delivery>>

\* lines 81-96 of the second call: the flag is set, self.consumer is
\* replaced and the second loop starts
start_again_enter == /\ starter = "checked"
                     /\ \E created \in BOOLEAN:
                          IF created
                          THEN running' = TRUE /\ consumer' = "open" /\ starter' = "looping"
                          ELSE running' = FALSE /\ consumer' = "none" /\ starter' = "done"
                     /\ UNCHANGED <<unix_time, kpc, batch_size, batch_timeout, messages_batch, last_process_time, message, arrival, flushed, lost, stop_called>>
                     /\ UNCHANGED <<pull_rest, pull_store, delivery>>

\* lines 99-101 and 127-131 of the second call: its loop is left (the stream
\* ended or raised, or a record arrived after the flag was cleared)
start_again_leave == /\ starter = "looping"
                     /\ running' = FALSE
                     /\ consumer' = "closed"
                     /\ starter' = "done"
                     /\ UNCHANGED <<unix_time, kpc, batch_size, batch_timeout, messages_batch, last_process_time, message, arrival, flushed, lost, stop_called>>
                     /\ UNCHANGED <<pull_rest, pull_store, delivery>>

\* The consumer with a second caller of start_consuming.
NextStart == \/ TickStream
             \/ start_consuming
             \/ receive
             \/ handle_message
             \/ flush_remainder
             \/ close_consumer
             \/ stop_consuming
             \/ start_again_check
             \/ start_again_enter
             \/ start_again_leave

SpecStart == InitStreamFair /\ [][NextStart]_all_vars

\* The loop observed: the stream yields no record once MaxRecords records
\* have been appended to the buffer (it may still end or raise).
MaxRecords == 3

\* As InitStreamFair, with the observation on; KAFKA_BATCH_SIZE may be 0.
InitDeliver == /\ clock = 0
               /\ es_client = TRUE
               /\ index = [s \in Sources |-> <<>>]
               /\ last_processed_file = Absent
               /\ last_processed = load_last_processed(last_processed_file, clock).value
               /\ processed_data_file = Absent
               /\ fine_tuning_history_file = Absent
               /\ fine_tuning_history = <<>>
               /\ load_raised = FALSE
               /\ log_data = NotRead
               /\ IdleLocals
               /\ unsaved = EmptyMap
               /\ must_cover = EmptyMap
               /\ unix_time = StartTime
               /\ running = FALSE
               /\ consumer = "none"
               /\ kpc = "idle"
               /\ batch_size \in BatchSizes \cup {0}
               /\ batch_timeout \in BatchTimeouts
               /\ messages_batch = <<>>
               /\ last_process_time = 0
               /\ message = None
               /\ arrival = NoArrival
               /\ flushed = NoFlush
               /\ lost = <<>>
               /\ stop_called = FALSE
               /\ starter = "idle"
               /\ delivery = [on |-> TRUE, received |-> <<>>, batches |-> <<>>]
               /\ TuneIdle
               /\ query = NoQuery
               /\ classified = NoClassified

NextDeliver == \/ TickStream
               \/ start_consuming
               \/ receive /\ (kpc' = "received" => Len(delivery.received) < MaxRecords)
               \/ handle_message
               \/ flush_remainder
               \/ close_consumer
               \/ stop_consuming

SpecDeliver == InitDeliver /\ [][NextDeliver]_all_vars

\* ---------------------------------------------------------- the fine tuner
\* fine_tune is called while the history holds at most MaxHistory entries.
MaxHistory == 1

\* The partitions, in the order fine_tune attempts them (lines 86-102).
TaskTypes == <<"sentiment", "anomaly", "summary">>

\* A training example of a task type; "other" is a type fine_tune ignores.
TuneExample(task) == [task_type |-> task, log_text |-> <<Str("x")>>]
TuneExamples == {TuneExample("sentiment"), TuneExample("anomaly"), TuneExample("summary"), TuneExample("other")}
TrainingInputs == {<<>>,
                   <<TuneExample("other")>>,
                   <<TuneExample("anomaly")>>,
                   <<TuneExample("summary"), TuneExample("anomaly")>>,
                   <<TuneExample("anomaly"), TuneExample("sentiment"), TuneExample("anomaly")>>,
                   <<TuneExample("summary"), TuneExample("other"), TuneExample("sentiment"), TuneExample("anomaly")>>}

\* What both triggers read from get_latest_processed_data (main.py:58).
LatestInputs == {<<TuneExample("anomaly")>>, <<TuneExample("summary"), TuneExample("anomaly")>>}

\* lines 79-81
Partition(data, task) == SelectSeq(data, LAMBDA d: d.task_type = task)

\* The handler of lines 153/184/215 is missing.
fine_tune_task_unguarded(data, task, ok) == [raises |-> ~ok,
                                             result |-> IF ok THEN <<[task_type |-> task, data_count |-> Len(data), success |-> TRUE, details |-> [examples_processed |-> Len(data), model_updated |-> TRUE]]>> ELSE <<>>]

\* _fine_tune_sentiment / _fine_tune_anomaly / _fine_tune_summary on a
\* partition; `ok` is FALSE when the adaptation step raises. The result is
\* the sequence of the one result, or empty for None.
fine_tune_task(data, task, ok) == [raises |-> FALSE,
                                   result |-> IF ok THEN <<[task_type |-> task, data_count |-> Len(data), success |-> TRUE, details |-> [examples_processed |-> Len(data), model_updated |-> TRUE]]>> ELSE <<>>]

\* The call reports success only when two partitions succeeded.
fine_tune_result_two(rs) == Len(rs) >= 2

\* lines 105, 119, 122: the value fine_tune returns
fine_tune_result(rs) == rs # <<>>

\* The entry counts the examples of the whole call.
HistoryEntryOfCall(result, t, data) == [timestamp |-> isoformat(t), task_type |-> result.task_type, data_count |-> Len(data), success |-> result.success, details |-> result.details]

\* lines 107-113: the entry of a result, for a call with the argument `data`
HistoryEntry(result, t, data) == [timestamp |-> isoformat(t), task_type |-> result.task_type, data_count |-> result.data_count, success |-> result.success, details |-> result.details]

\* The file object writes its buffer at its own offset 0 when it is closed:
\* over a longer text written meanwhile by another writer it leaves a text
\* that does not parse.
Overlay(doc, data) == IF doc.st = "ok" /\ Len(doc.data) > Len(data) THEN Corrupt ELSE Doc(data)

\* What the fine tuner leaves alone.
tune_rest == <<clock, es_client, index, last_processed, last_processed_file, processed_data_file, load_raised, log_data, locals, calls, unsaved, must_cover, stream_vars, query, classified>>

FineTuneIdle(t) == tpc[t] \in {"idle", "returned", "raised"}

\* fine_tune(training_data), lines 72-84
fine_tune_with(t, data) == /\ training_data' = [training_data EXCEPT ![t] = data]
                           /\ IF data = <<>>
                              THEN tpc' = [tpc EXCEPT ![t] = "returned"] /\ tret' = [tret EXCEPT ![t] = FALSE]
                              ELSE tpc' = [tpc EXCEPT ![t] = "sentiment"] /\ tret' = [tret EXCEPT ![t] = "none"]
                           /\ results' = [results EXCEPT ![t] = <<>>]
                           /\ attempts' = [attempts EXCEPT ![t] = <<>>]
                           /\ snapshot' = [snapshot EXCEPT ![t] = <<>>]
                           /\ appended' = [appended EXCEPT ![t] = <<>>]
                           /\ entry_history' = [entry_history EXCEPT ![t] = fine_tuning_history]
                           /\ entry_file' = [entry_file EXCEPT ![t] = fine_tuning_history_file]
                           /\ history_saves' = [history_saves EXCEPT ![t] = <<>>]
                           /\ UNCHANGED <<fine_tuning_history, fine_tuning_history_file>>

\* A call of fine_tune with some training data.
fine_tune(t) == /\ FineTuneIdle(t)
                /\ Len(fine_tuning_history) <= MaxHistory
                /\ \E data \in TrainingInputs: fine_tune_with(t, data)
                /\ UNCHANGED tune_rest

NextPartition(task) == CASE task = "sentiment" -> "anomaly"
                         [] task = "anomaly" -> "summary"
                         [] task = "summary" -> "record"

\* lines 86-102: one partition; after the last one, lines 105 and 120-122
tune_partition(t) == /\ tpc[t] \in {"sentiment", "anomaly", "summary"}
                     /\ LET task == tpc[t]
                            part == Partition(training_data[t], task)
                        IN  \E ok \in BOOLEAN:
                              LET r == fine_tune_task(part, task, ok)
                                  rs == IF part = <<>> THEN results[t] ELSE results[t] \o r.result
                              IN  /\ part = <<>> => ok
                                  /\ IF part # <<>> /\ r.raises
                                     THEN /\ tpc' = [tpc EXCEPT ![t] = "raised"]
                                          /\ attempts' = [attempts EXCEPT ![t] = Append(@, [task_type |-> task, data_count |-> Len(part), ok |-> FALSE])]
                                          /\ UNCHANGED <<results, tret>>
                                     ELSE /\ results' = [results EXCEPT ![t] = rs]
                                          /\ attempts' = [attempts EXCEPT ![t] = IF part = <<>> THEN @ ELSE Append(@, [task_type |-> task, data_count |-> Len(part), ok |-> ok])]
                                          /\ IF NextPartition(task) = "record" /\ ~fine_tune_result(rs)
                                             THEN tpc' = [tpc EXCEPT ![t] = "returned"] /\ tret' = [tret EXCEPT ![t] = FALSE]
                                             ELSE tpc' = [tpc EXCEPT ![t] = NextPartition(task)] /\ UNCHANGED tret
                     /\ UNCHANGED <<training_data, snapshot, appended, entry_history, entry_file, history_saves>>
                     /\ UNCHANGED <<fine_tuning_history, fine_tuning_history_file, tune_rest>>

\* lines 106-113: one turn of the loop over the results
record_entry(t) == /\ tpc[t] = "record"
                   /\ LET k == Len(appended[t]) + 1
                          entry == HistoryEntry(results[t][k], clock, training_data[t])
                      IN  /\ fine_tuning_history' = Append(fine_tuning_history, entry)
                          /\ appended' = [appended EXCEPT ![t] = Append(@, entry)]
                          /\ tpc' = [tpc EXCEPT ![t] = IF k = Len(results[t]) THEN "save_open" ELSE "record"]
                   /\ UNCHANGED <<training_data, results, attempts, tret, snapshot, entry_history, entry_file, history_saves>>
                   /\ UNCHANGED <<fine_tuning_history_file, tune_rest>>

\* _save_fine_tuning_history, line 56: open(..., 'w') truncates the document;
\* a failure is swallowed (line 59) and fine_tune returns True (line 119)
save_open(t) == /\ tpc[t] = "save_open"
                /\ \E opened \in BOOLEAN:
                     IF opened
                     THEN /\ fine_tuning_history_file' = Corrupt
                          /\ tpc' = [tpc EXCEPT ![t] = "save_dump"]
                          /\ UNCHANGED <<tret, history_saves>>
                     ELSE /\ tpc' = [tpc EXCEPT ![t] = "returned"]
                          /\ tret' = [tret EXCEPT ![t] = fine_tune_result(results[t])]
                          /\ history_saves' = [history_saves EXCEPT ![t] = Append(@, "open_failed")]
                          /\ UNCHANGED fine_tuning_history_file
                /\ UNCHANGED <<training_data, results, attempts, snapshot, appended, entry_history, entry_file>>
                /\ UNCHANGED <<fine_tuning_history, tune_rest>>

\* line 57: json.dump serialises the history as it is now
save_dump(t) == /\ tpc[t] = "save_dump"
                /\ snapshot' = [snapshot EXCEPT ![t] = fine_tuning_history]
                /\ tpc' = [tpc EXCEPT ![t] = "save_close"]
                /\ UNCHANGED <<training_data, results, attempts, tret, appended, entry_history, entry_file, history_saves>>
                /\ UNCHANGED <<fine_tuning_history, fine_tuning_history_file, tune_rest>>

\* the end of the with block of lines 56-57, then lines 118-119
save_close(t) == /\ tpc[t] = "save_close"
                 /\ \E written \in BOOLEAN:
                      /\ fine_tuning_history_file' = IF written THEN Overlay(fine_tuning_history_file, snapshot[t]) ELSE fine_tuning_history_file
                      /\ history_saves' = [history_saves EXCEPT ![t] = Append(@, IF written THEN "ok" ELSE "write_failed")]
                 /\ tpc' = [tpc EXCEPT ![t] = "returned"]
                 /\ tret' = [tret EXCEPT ![t] = fine_tune_result(results[t])]
                 /\ UNCHANGED <<training_data, results, attempts, snapshot, appended, entry_history, entry_file>>
                 /\ UNCHANGED <<fine_tuning_history, tune_rest>>

\* The process is restarted between calls: FineTuner.__init__ (line 31)
\* loads the history anew.
RestartTuner == /\ \A t \in Threads: FineTuneIdle(t)
                /\ \E t \in Threads: tpc[t] # "idle"
                /\ fine_tuning_history' = load_fine_tuning_history(fine_tuning_history_file).value
                /\ tpc' = [t \in Threads |-> "idle"]
                /\ training_data' = [t \in Threads |-> <<>>]
                /\ results' = [t \in Threads |-> <<>>]
                /\ attempts' = [t \in Threads |-> <<>>]
                /\ tret' = [t \in Threads |-> "none"]
                /\ snapshot' = [t \in Threads |-> <<>>]
                /\ appended' = [t \in Threads |-> <<>>]
                /\ entry_history' = [t \in Threads |-> <<>>]
                /\ entry_file' = [t \in Threads |-> Absent]
                /\ history_saves' = [t \in Threads |-> <<>>]
                /\ UNCHANGED <<fine_tuning_history_file, tune_rest>>

InitTune == /\ clock = 0
            /\ es_client = TRUE
            /\ index = [s \in Sources |-> <<>>]
            /\ last_processed_file = Absent
            /\ last_processed = load_last_processed(last_processed_file, clock).value
            /\ processed_data_file = Absent
            /\ fine_tuning_history_file \in {Absent, Doc(<<SampleEntry>>)}
            /\ fine_tuning_history = load_fine_tuning_history(fine_tuning_history_file).value
            /\ load_raised = FALSE
            /\ log_data = NotRead
            /\ IdleLocals
            /\ unsaved = EmptyMap
            /\ must_cover = EmptyMap
            /\ StreamIdle
            /\ TuneIdle
            /\ query = NoQuery
            /\ classified = NoClassified

\* One trigger at a time.
NextTune == \/ Tick /\ UNCHANGED other_vars
            \/ RestartTuner
            \/ fine_tune(MainThread)
            \/ tune_partition(MainThread)
            \/ record_entry(MainThread)
            \/ save_open(MainThread)
            \/ save_dump(MainThread)
            \/ save_close(MainThread)

SpecTune == InitTune /\ [][NextTune]_all_vars

\* The scheduled and the manual trigger each call fine_tune once, with no
\* lock between them.
FirstTune(t) == tpc[t] = "idle" /\ fine_tune(t) /\ training_data'[t] \in LatestInputs

\* The document store works: no step of a save fails.
SavesWork == \A t \in Threads: \A i \in 1..Len(history_saves[t]): history_saves[t][i] = "ok"

TuneOnce(t) == \/ FirstTune(t)
               \/ tune_partition(t)
               \/ record_entry(t)
               \/ save_open(t) /\ SavesWork'
               \/ save_dump(t)
               \/ save_close(t) /\ SavesWork'

NextTuneConc == \/ Tick /\ UNCHANGED other_vars
                \/ \E t \in Threads: TuneOnce(t)

SpecTuneConc == InitTune /\ [][NextTuneConc]_all_vars


\* ------------------------------------------------------------ the triggers
\* fine_tune is called whatever the accessor returned.
ShouldFineTuneAlways(data) == TRUE

\* main.py:59: if log_data and len(log_data) > 0
ShouldFineTune(data) == data # <<>>

\* A trigger may start when the thread's previous trigger has ended.
TriggerIdle(t) == FineTuneIdle(t) \/ tpc[t] = "skipped"

\* scheduled_fine_tuning (main.py:53-66), which trigger_fine_tuning calls
\* too (main.py:109): the latest results are read and, when there are any,
\* fine_tune is entered with them; otherwise the trigger ends ("skipped").
scheduled_fine_tuning(t) == /\ TriggerIdle(t)
                            /\ Len(fine_tuning_history) <= MaxHistory
                            /\ LET r == load_processed_data(processed_data_file)
                               IN  /\ log_data' = [read |-> TRUE, value |-> r.value]
                                   /\ load_raised' = r.raises
                                   /\ IF ShouldFineTune(r.value)
                                      THEN fine_tune_with(t, r.value)
                                      ELSE /\ tpc' = [tpc EXCEPT ![t] = "skipped"]
                                           /\ UNCHANGED <<training_data, results, attempts, tret, snapshot, appended, entry_history, entry_file, history_saves>>
                                           /\ UNCHANGED <<fine_tuning_history, fine_tuning_history_file>>
                            /\ UNCHANGED <<clock, es_client, index, last_processed, last_processed_file, processed_data_file, locals, calls, unsaved, must_cover, stream_vars, query, classified>>

\* The latest-results document a trigger may find.
TriggerDocs == {Absent, Corrupt, Doc(<<>>)} \cup {Doc(data) : data \in TrainingInputs}

InitTrigger == /\ clock = 0
               /\ es_client = TRUE
               /\ index = [s \in Sources |-> <<>>]
               /\ last_processed_file = Absent
               /\ last_processed = load_last_processed(last_processed_file, clock).value
               /\ processed_data_file \in TriggerDocs
               /\ fine_tuning_history_file \in {Absent, Doc(<<SampleEntry>>)}
               /\ fine_tuning_history = load_fine_tuning_history(fine_tuning_history_file).value
               /\ load_raised = FALSE
               /\ log_data = NotRead
               /\ IdleLocals
               /\ unsaved = EmptyMap
               /\ must_cover = EmptyMap
               /\ StreamIdle
               /\ TuneIdle
               /\ query = NoQuery
               /\ classified = NoClassified

NextTrigger == \/ Tick /\ UNCHANGED other_vars
               \/ scheduled_fine_tuning(MainThread)
               \/ tune_partition(MainThread)
               \/ record_entry(MainThread)
               \/ save_open(MainThread)
               \/ save_dump(MainThread)
               \/ save_close(MainThread)

SpecTrigger == InitTrigger /\ [][NextTrigger]_all_vars

\* -------------------------------------------------------- the history query
\* The instants of the entries a query is asked over, in half seconds.
QueryInstants == {0, 1, 19, 20}
QueryTasks == {"none", "anomaly", "summary", "sentiment"}

\* The text of a timestamp as datetime.isoformat() writes the part that
\* varies: the seconds in two digits, then the fraction unless it is zero
\* (character codes: "0" is 48, "." is 46). A text that is no date is "x".
IsoText(ts) == IF ts.iso
               THEN <<48 + ((ts.t \div 2) \div 10), 48 + ((ts.t \div 2) % 10)>> \o (IF ts.t % 2 = 0 THEN <<>> ELSE <<46, 53>>)
               ELSE <<120>>

\* datetime.fromisoformat on such a text: [raises, t]
fromisoformat(text) == IF Len(text) \in {2, 4} /\ \A i \in {1, 2}: text[i] \in 48..57
                       THEN [raises |-> FALSE, t |-> 2 * (10 * (text[1] - 48) + (text[2] - 48)) + (IF Len(text) = 4 THEN 1 ELSE 0)]
                       ELSE [raises |-> TRUE, t |-> 0]

\* a < b on Python strings
RECURSIVE StrLess(_, _)
StrLess(a, b) == IF b = <<>> THEN FALSE
                 ELSE IF a = <<>> THEN TRUE
                 ELSE IF Head(a) # Head(b) THEN Head(a) < Head(b)
                 ELSE StrLess(Tail(a), Tail(b))

\* The entry stored last is taken for the latest.
LastStored(entries) == entries[Len(entries)]

\* max(entries, key=lambda x: x.get("timestamp", "")): the first of the
\* entries with the greatest timestamp text (line 278)
RECURSIVE MaxByTimestamp(_)
MaxByTimestamp(entries) == IF Len(entries) = 1 THEN entries[1]
                           ELSE LET best == MaxByTimestamp(SubSeq(entries, 1, Len(entries) - 1))
                                    x == entries[Len(entries)]
                                IN  IF StrLess(IsoText(best.timestamp), IsoText(x.timestamp)) THEN x ELSE best

\* get_last_fine_tuning_time: [none, t]; task_type "none" is no filter
get_last_fine_tuning_time(history, task_type) == LET filtered == IF task_type = "none" THEN history ELSE SelectSeq(history, LAMBDA h: h.task_type = task_type)
                                                 IN  IF history = <<>> \/ filtered = <<>> THEN [none |-> TRUE, t |-> 0]
                                                     ELSE LET parsed == fromisoformat(IsoText(MaxByTimestamp(filtered).timestamp))
                                                          IN  IF parsed.raises THEN [none |-> TRUE, t |-> 0] ELSE [none |-> FALSE, t |-> parsed.t]

\* A caller asks for the time of the last fine tuning.
ask_last_fine_tuning_time == /\ \E task_type \in QueryTasks:
                                  query' = [asked |-> TRUE, task_type |-> task_type, result |-> get_last_fine_tuning_time(fine_tuning_history, task_type)]
                             /\ UNCHANGED <<vars, stream_vars, tune_vars, classified>>

\* The histories fine_tune can have left: up to three entries, in any
\* store order.
QueryEntries == {[timestamp |-> Iso(t), task_type |-> k, data_count |-> 1, success |-> TRUE] : t \in QueryInstants, k \in {"anomaly", "summary"}}
QueryHistories == UNION {[1..n -> QueryEntries] : n \in 0..3}

InitQuery == /\ clock = 0
             /\ es_client = TRUE
             /\ index = [s \in Sources |-> <<>>]
             /\ last_processed_file = Absent
             /\ last_processed = load_last_processed(last_processed_file, clock).value
             /\ processed_data_file = Absent
             /\ fine_tuning_history_file = Absent
             /\ fine_tuning_history \in QueryHistories
             /\ load_raised = FALSE
             /\ log_data = NotRead
             /\ IdleLocals
             /\ unsaved = EmptyMap
             /\ must_cover = EmptyMap
             /\ StreamIdle
             /\ TuneIdle
             /\ query = NoQuery
             /\ classified = NoClassified

NextQuery == ask_last_fine_tuning_time

SpecQuery == InitQuery /\ [][NextQuery]_all_vars


\* ------------------------------------------- the classification entry points
\* [x] * n
Repeat(x, n) == [i \in 1..n |-> x]

\* The batches an entry point is called with: every batch of up to two of
\* the sample records, and nine or ten copies of one record followed by at
\* most one sample record.
ClassifyBatches(samples, filler) == UNION {[1..n -> samples] : n \in 0..2} \cup {Repeat(filler, n) \o s : n \in {9, 10}, s \in UNION {[1..k -> samples] : k \in 0..1}}

AppSamples == {AppRec(0, Str("ERROR"), Str("boom")), AppRec(1, Str("WARNING"), Str("slow")), AppRec(2, Str("INFO"), Str("started")),
               AppRec(3, Str("FATAL"), Str("dead")), AppRec(4, Missing, Str("x")), AppRec(5, Str("INFO"), Missing)}
\* Ten INFO records of two services with two messages, alone and with an
\* INFO record without message in front of them or among them.
InfoRun == [i \in 1..10 |-> [AppRec(10 + i, Str("INFO"), Str(IF i % 2 = 0 THEN "started" ELSE "stopped")) EXCEPT !.service = Str(IF i <= 5 THEN "api" ELSE "db")]]
InfoRunBatches == {InfoRun,
                   <<AppRec(5, Str("INFO"), Missing)>> \o InfoRun,
                   SubSeq(InfoRun, 1, 4) \o <<AppRec(5, Str("INFO"), Str(""))>> \o SubSeq(InfoRun, 5, 10)}
AppBatches == ClassifyBatches(AppSamples, AppRec(2, Str("INFO"), Str("started"))) \cup InfoRunBatches

NginxSamples == {NginxRec(0, Num(200), Num(5), Str("/a")), NginxRec(1, Num(200), Num(1001), Str("/b")), NginxRec(2, Num(399), Num(5), Missing),
                 NginxRec(3, Num(404), Num(2000), Str("/a")), NginxRec(4, Num(500), Num(5), Str("/a")), NginxRec(5, Missing, Num(5), Str("/a")),
                 NginxRec(6, Str("500"), Num(5), Str("/a")), NginxRec(7, Num(200), None, Str("/a"))}
\* Requests of seven paths, three of them requested twice, among them a
\* client error on the path requested most and a request without path;
\* the same requests in reverse order; requests of two paths.
PathRun(paths) == [i \in 1..Len(paths) |-> NginxRec(i, Num(IF paths[i] = "/x" THEN 404 ELSE 200), Num(5), IF paths[i] = "" THEN Missing ELSE Str(paths[i]))]
ManyPaths == <<"/x", "/a", "/b", "/x", "/c", "/b", "/d", "", "/e", "/x", "/f", "/f", "/g", "/c">>
PathBatches == {PathRun(ManyPaths),
                PathRun([i \in 1..Len(ManyPaths) |-> ManyPaths[Len(ManyPaths) + 1 - i]]),
                PathRun(<<"/a", "/b", "/b">>)}
NginxBatches == ClassifyBatches(NginxSamples, NginxRec(0, Num(200), Num(5), Str("/a"))) \cup PathBatches

MetricSamples == {MetricRec(0, Str("h1"), Num(95), Num(50), Num(50)), MetricRec(1, Str("h1"), Num(50), Num(50), Num(50)), MetricRec(2, Str("h1"), Num(80), Num(90), Num(85)),
                  MetricRec(3, Str("h2"), Num(95), Num(95), Num(95)), MetricRec(4, Missing, Num(81), Num(91), Num(86)), MetricRec(5, Str("h1"), Str("95"), Num(50), Num(50)),
                  [MetricRec(6, Str("h1"), Num(50), Num(50), Num(50)) EXCEPT !.timestamp = Str("yesterday")],
                  [MetricRec(7, Str("h1"), Num(50), Num(50), Num(50)) EXCEPT !.timestamp = Missing]}
\* Two hosts that both reach the summary; in the second batch one timestamp
\* of the first host is no date.
TwoHostBatches == {Repeat(MetricRec(1, Str("h1"), Num(50), Num(50), Num(50)), 10) \o Repeat(MetricRec(3, Str("h2"), Num(95), Num(95), Num(95)), 10),
                   Repeat(MetricRec(1, Str("h1"), Num(50), Num(50), Num(50)), 9) \o <<[MetricRec(6, Str("h1"), Num(95), Num(50), Num(50)) EXCEPT !.timestamp = Str("yesterday")]>>
                       \o Repeat(MetricRec(3, Str("h2"), Num(95), Num(95), Num(95)), 10)}
MetricBatches == ClassifyBatches(MetricSamples, MetricRec(1, Str("h1"), Num(50), Num(50), Num(50))) \cup TwoHostBatches

\* The outcomes of the clustering step the model follows on a batch that
\* reaches it: it raised, every message in cluster 0, or message i in
\* cluster i mod n_clusters.
KMeansSamples(logs) == IF ~ClusteringReached(logs) THEN {NoKMeans}
                       ELSE LET messages == InfoMessages(InfoLogs(logs))
                            IN  {NoKMeans} \cup
                                (IF \A i \in 1..Len(messages): messages[i].k = "str"
                                 THEN {[failed |-> FALSE, labels |-> [i \in 1..Len(messages) |-> 0]],
                                       [failed |-> FALSE, labels |-> [i \in 1..Len(messages) |-> i % NClusters(messages)]]}
                                 ELSE {})

\* A call of _process_application_logs
classify_application_logs == /\ \E logs \in AppBatches: \E km \in KMeansSamples(logs):
                                  LET r == process_application_logs(logs, km)
                                  IN  classified' = [source |-> "application_logs", logs |-> logs, lib |-> km, raises |-> r.raises, out |-> r.out]
                             /\ UNCHANGED <<vars, stream_vars, tune_vars, query>>

\* A call of _process_nginx_logs
classify_nginx_logs == /\ \E logs \in NginxBatches:
                            LET r == process_nginx_logs(logs)
                            IN  classified' = [source |-> "nginx_access", logs |-> logs, lib |-> {}, raises |-> r.raises, out |-> r.out]
                       /\ UNCHANGED <<vars, stream_vars, tune_vars, query>>

\* A call of _process_system_metrics
classify_system_metrics == /\ \E logs \in MetricBatches: \E rs \in ResampleOutcomes(logs):
                                LET r == process_system_metrics(logs, rs)
                                IN  classified' = [source |-> "system_metrics", logs |-> logs, lib |-> rs, raises |-> r.raises, out |-> r.out]
                           /\ UNCHANGED <<vars, stream_vars, tune_vars, query>>

InitClassify == /\ clock = 0
                /\ es_client = TRUE
                /\ index = [s \in Sources |-> <<>>]
                /\ last_processed_file = Absent
                /\ last_processed = load_last_processed(last_processed_file, clock).value
                /\ processed_data_file = Absent
                /\ fine_tuning_history_file = Absent
                /\ fine_tuning_history = load_fine_tuning_history(fine_tuning_history_file).value
                /\ load_raised = FALSE
                /\ log_data = NotRead
                /\ IdleLocals
                /\ unsaved = EmptyMap
                /\ must_cover = EmptyMap
                /\ StreamIdle
                /\ TuneIdle
                /\ query = NoQuery
                /\ classified = NoClassified

NextClassify == \/ classify_application_logs
                \/ classify_nginx_logs
                \/ classify_system_metrics

SpecClassify == InitClassify /\ [][NextClassify]_all_vars

\* ------------------------------------------------------------------ claims
AllAt(n) == [s \in Sources |-> n]
CycleSources == <<"application_logs", "nginx_access", "system_metrics">>
PastAdvance(t) == pc[t] \in {"classify", "save"} \/ (pc[t] = "returned" /\ queries[t] # <<>>) \/ (pc[t] = "raised" /\ exc[t] = "TypeError")

\* C1: for each source the watermark never decreases across process_new_logs
\* invocations, also when invocations overlap in time: no advance of the
\* watermarks (lines 131-134) lowers the watermark of a source.
C1_WatermarkNeverDecreases == [][(\E t \in Threads: advance_watermarks(t)) => \A s \in DOMAIN last_processed: last_processed'[s] >= last_processed[s]]_vars

\* C2: the watermarks advance only after fetch, classification and the
\* persisting of the results have all succeeded: an invocation in which a
\* classifier raised, or in which the write of the results failed, leaves
\* the watermarks as it found them.
C2_AdvanceOnlyAfterSuccess == \A t \in Threads: (\/ pc[t] = "raised" /\ exc[t] = "TypeError"
                                                 \/ pc[t] = "returned" /\ \E i \in 1..Len(data_saves[t]): data_saves[t][i] # "ok")
                                                => last_processed = entry_wm[t]

\* C3 (as stated): every invocation that has returned has set all three
\* watermarks to the now it read and has written the watermark map once.
C3_EveryInvocationAdvances == \A t \in Threads: pc[t] = "returned" => last_processed = AllAt(now[t]) /\ Len(wm_saves[t]) = 1

\* C3 (amended): an invocation that found the client and completed its three
\* fetches has set all three watermarks to the single now it read and has
\* called _save_last_processed exactly once, whatever was fetched; an
\* invocation that found no client, or that raised KeyError at lines
\* 122-128, has left the watermarks as they were and has written nothing.
C3_AdvanceToNow == \A t \in Threads: /\ PastAdvance(t) => /\ last_processed = AllAt(now[t])
                                                          /\ Len(wm_saves[t]) = 1
                                                          /\ \A i \in 1..Len(queries[t]): queries[t][i].end = now[t]
                                     /\ (pc[t] = "returned" /\ queries[t] = <<>>) \/ (pc[t] = "raised" /\ exc[t] = "KeyError")
                                        => last_processed = entry_wm[t] /\ wm_saves[t] = <<>>

\* C3 witness: a cycle that fetched no application record (the query failed)
\* and some access record has returned with all watermarks moved to its now.
C3_Witness == /\ pc[MainThread] = "returned"
              /\ Len(wm_saves[MainThread]) = 1
              /\ app_logs[MainThread] = <<>>
              /\ nginx_logs[MainThread] # <<>>
              /\ last_processed = AllAt(now[MainThread])
              /\ last_processed # entry_wm[MainThread]

\* C4 (as stated): whenever process_new_logs has returned R, the latest
\* results read back from the results document are exactly R.
C4_ReturnedIsLatest == \A t \in Threads: pc[t] = "returned" => load_processed_data(processed_data_file).value = ret[t]

\* C4 (amended): a non-empty R whose write succeeded is read back exactly by
\* get_latest_processed_data; an empty R is not written at all (the
\* document keeps what it held) and a failed write is swallowed.
C4_NonEmptyReturnedIsLatest == \A t \in Threads: pc[t] = "returned" => /\ (ret[t] # <<>> /\ data_saves[t] = <<"ok">>) => load_processed_data(processed_data_file).value = ret[t]
                                                                       /\ ret[t] # <<>> => Len(data_saves[t]) = 1
                                                                       /\ ret[t] = <<>> => data_saves[t] = <<>>

\* C4 witness: a cycle has returned some examples and the accessor, called
\* after it, has read exactly these back.
C4_Witness == /\ pc[MainThread] = "returned"
              /\ ret[MainThread] # <<>>
              /\ data_saves[MainThread] = <<"ok">>
              /\ processed_data_file = Doc(ret[MainThread])
              /\ log_data = [read |-> TRUE, value |-> ret[MainThread]]

\* C5: after a restart that follows a failed persist of the watermark map,
\* the window of the next cycle starts, for each source, no later than the
\* window whose persist failed started.
C5_RestartRefetchesWindow == \A t \in Threads: \A i \in 1..Len(queries[t]): must_cover # EmptyMap => queries[t][i].start <= must_cover[queries[t][i].source]

\* C6: a cycle in which the query of a source failed got an empty sequence
\* for it, does not raise, and advances that source's watermark to now; and
\* a cycle that starts with all watermarks already at its now returns no
\* example and leaves them there.
C6_FetchFailureIsHarmless == \A t \in Threads: /\ (\E i \in 1..Len(queries[t]): ~queries[t][i].ok)
                                                  => /\ pc[t] # "raised"
                                                     /\ PastAdvance(t) => last_processed = AllAt(now[t])
                                               /\ (Len(queries[t]) >= 1 /\ ~queries[t][1].ok) => app_logs[t] = <<>>
                                               /\ (pc[t] = "returned" /\ queries[t] # <<>> /\ entry_wm[t] = AllAt(now[t]))
                                                  => ret[t] = <<>> /\ last_processed = AllAt(now[t])

\* C7: a pull cycle never fails because the watermark of a source is unset.
C7_NoKeyError == \A t \in Threads: exc[t] # "KeyError"

\* C8: loading a document that is missing or does not parse raises nothing
\* and yields the default: all three watermarks at now minus one day, no
\* latest results, an empty history.
C8_LoadFallsBackToDefault == [][/\ Restart => /\ ~load_raised'
                                              /\ (last_processed_file.st # "ok" \/ \E k \in DOMAIN last_processed_file.data: ~last_processed_file.data[k].iso)
                                                 => last_processed' = [s \in Sources |-> clock - Day]
                                              /\ fine_tuning_history_file.st # "ok" => fine_tuning_history' = <<>>
                                /\ get_latest_processed_data => /\ ~load_raised'
                                                                /\ processed_data_file.st # "ok" => log_data'.value = <<>>]_vars

\* C8 witness: all three documents are corrupt, the process was restarted
\* at a later clock reading and the latest results were read.
C8_Witness == /\ clock > 0
              /\ last_processed_file = Corrupt
              /\ last_processed = [s \in Sources |-> clock - Day]
              /\ fine_tuning_history_file = Corrupt
              /\ fine_tuning_history = <<>>
              /\ processed_data_file = Corrupt
              /\ log_data = [read |-> TRUE, value |-> <<>>]
              /\ ~load_raised

\* C9: the result of a pull cycle is the application examples, then the
\* access examples, then the metric examples, each source having been
\* queried once and classified once, on the records its query returned; an
\* invocation that ran no cycle (no client) returns nothing.
C9_ResultIsConcatenation == \A t \in Threads: pc[t] = "returned" =>
                                IF queries[t] = <<>> THEN ret[t] = <<>> /\ process_calls[t] = <<>>
                                ELSE /\ [i \in 1..Len(queries[t]) |-> queries[t][i].source] = CycleSources
                                     /\ process_calls[t] = CycleSources
                                     /\ app_logs[t] = Fetched(index["application_logs"], queries[t][1].start, queries[t][1].end, queries[t][1].ok)
                                     /\ nginx_logs[t] = Fetched(index["nginx_access"], queries[t][2].start, queries[t][2].end, queries[t][2].ok)
                                     /\ system_metrics[t] = Fetched(index["system_metrics"], queries[t][3].start, queries[t][3].end, queries[t][3].ok)
                                     /\ \E km \in KMeansOutcomes(app_logs[t]), rs \in ResampleOutcomes(system_metrics[t]):
                                          ret[t] = process_application_logs(app_logs[t], km).out
                                                   \o process_nginx_logs(nginx_logs[t]).out
                                                   \o process_system_metrics(system_metrics[t], rs).out

\* C9 witness: a cycle has returned one example of each of the three sources.
C9_Witness == /\ pc[MainThread] = "returned"
              /\ Len(app_logs[MainThread]) = 1 /\ Len(nginx_logs[MainThread]) = 1 /\ Len(system_metrics[MainThread]) = 1
              /\ Len(ret[MainThread]) = 3
              /\ ret[MainThread][1].anomaly_status = "critical"
              /\ ret[MainThread][2].task_type = "summary"
              /\ ret[MainThread][3].anomaly_status = "warning"

\* C10: no exception propagates out of process_new_logs, whatever the
\* content of the records.
C10_NoExceptionPropagates == \A t \in Threads: ~(pc[t] = "raised" /\ exc[t] = "TypeError")

\* C11: after a record has been appended to the buffer, the buffer is
\* flushed if and only if it holds at least batch_size records or the
\* arrival time (in the whole seconds the loop reads) is at least
\* batch_timeout after the instant of the last flush (0 before the first
\* one); and while the loop runs _process_messages_batch is called at no
\* other moment than the handling of an arrived record.
C11_FlushIffFullOrTimedOut == /\ [](arrival.seen => /\ arrival.flush <=> (arrival.size >= batch_size \/ arrival.current_time - arrival.last >= batch_timeout)
                                                    /\ arrival.flush => messages_batch = <<>> /\ last_process_time = arrival.current_time /\ Len(flushed.messages) = arrival.size
                                                    /\ ~arrival.flush => Len(messages_batch) = arrival.size /\ last_process_time = arrival.last)
                              /\ [][flushed' # flushed => (kpc = "received" /\ running) \/ kpc = "ended"]_all_vars

\* C11 witness: a record arrived alone in a buffer of size 2, after an
\* earlier flush, and was flushed because the timeout had passed.
C11_Witness == /\ arrival.seen /\ arrival.flush
               /\ batch_size = 2 /\ arrival.size = 1
               /\ arrival.last > 0
               /\ arrival.current_time - arrival.last >= batch_timeout

\* C12: when the consumer has been closed, whatever ended the loop, no
\* buffered record was left unclassified.
C12_RemainderFlushedBeforeClose == consumer = "closed" => lost = <<>>

\* C13: a call of _process_messages_batch leaves the three watermarks, the
\* persisted watermark map and the persisted latest results as they were.
C13_BatchLeavesPullStateAlone == [][flushed' # flushed => UNCHANGED <<last_processed, last_processed_file, processed_data_file>>]_all_vars

\* C13 witness: a batch with an application ERROR record has been
\* classified while older latest results and a watermark map were persisted.
C13_Witness == /\ OfType(flushed.messages, "application") # <<>>
               /\ Len(flushed.messages) = 2
               /\ processed_data_file = Doc(<<SampleExample>>)
               /\ last_processed_file = Doc([s \in Sources |-> Iso(0)])

\* C14: once stop_consuming has been called, and the stream goes on
\* delivering, the loop eventually terminates with the connection closed
\* and running = False.
C14_StopTerminatesLoop == stop_called ~> (kpc = "done" /\ ~running /\ consumer # "open")

\* The task types with a non-empty partition, in the order of the attempts.
NonEmptyTasks(data) == SelectSeq(TaskTypes, LAMBDA k: Partition(data, k) # <<>>)
OkAttempts(t) == SelectSeq(attempts[t], LAMBDA a: a.ok)
IsPrefix(a, b) == Len(a) <= Len(b) /\ SubSeq(b, 1, Len(a)) = a
Persisted(doc) == load_fine_tuning_history(doc).value
Count(e, s) == Cardinality({i \in 1..Len(s): s[i] = e})

\* C15: fine_tune returns True exactly when the adaptation step of some
\* non-empty partition succeeded, the steps invoked being those of the
\* non-empty partitions; for an empty input it returns False, invokes no
\* step and changes neither the history nor its document.
C15_TrueIffSomePartitionSucceeded == \A t \in Threads: tpc[t] = "returned" =>
                                         /\ tret[t] <=> (\E i \in 1..Len(attempts[t]): attempts[t][i].ok)
                                         /\ [i \in 1..Len(attempts[t]) |-> attempts[t][i].task_type] = NonEmptyTasks(training_data[t])
                                         /\ training_data[t] = <<>> => /\ ~tret[t]
                                                                       /\ attempts[t] = <<>>
                                                                       /\ fine_tuning_history = entry_history[t]
                                                                       /\ fine_tuning_history_file = entry_file[t]
                                                                       /\ history_saves[t] = <<>>

\* C15 witness: a call has returned True after one partition failed and
\* another one succeeded.
C15_Witness == /\ tpc[MainThread] = "returned"
               /\ tret[MainThread] = TRUE
               /\ Len(attempts[MainThread]) = 2
               /\ attempts[MainThread][1].ok /\ ~attempts[MainThread][2].ok

\* C16: when the adaptation step of a partition raises, fine_tune does not
\* raise, the remaining non-empty partitions are attempted in the order
\* sentiment, anomaly, summary, and the entries of those that succeeded are
\* in the history.
C16_PartitionFailureIsIsolated == \A t \in Threads:
                                      /\ tpc[t] # "raised"
                                      /\ tpc[t] = "returned" =>
                                           /\ [i \in 1..Len(attempts[t]) |-> attempts[t][i].task_type] = NonEmptyTasks(training_data[t])
                                           /\ [i \in 1..Len(appended[t]) |-> appended[t][i].task_type] = [i \in 1..Len(OkAttempts(t)) |-> OkAttempts(t)[i].task_type]
                                           /\ fine_tuning_history = entry_history[t] \o appended[t]

\* C16 witness: the sentiment step raised, the anomaly step that followed
\* succeeded and its entry was appended.
C16_Witness == /\ tpc[MainThread] = "returned"
               /\ Len(attempts[MainThread]) = 2
               /\ attempts[MainThread][1] = [task_type |-> "sentiment", data_count |-> 1, ok |-> FALSE]
               /\ attempts[MainThread][2] = [task_type |-> "anomaly", data_count |-> 2, ok |-> TRUE]
               /\ Len(appended[MainThread]) = 1
               /\ fine_tuning_history[Len(fine_tuning_history)].task_type = "anomaly"

\* C17: a fine_tune call appends one entry per partition whose step
\* succeeded, with the partition's task_type, data_count the size of the
\* partition and success true, and nothing else; it then calls
\* _save_fine_tuning_history once (not at all when nothing was appended),
\* after the last append, and a save that succeeds leaves the whole history
\* in the document.
C17_OneEntryPerSuccess == \A t \in Threads:
                              /\ tpc[t] \in {"save_open", "save_dump", "save_close"} => Len(appended[t]) = Len(results[t]) /\ history_saves[t] = <<>>
                              /\ tpc[t] = "returned" =>
                                   /\ Len(appended[t]) = Len(OkAttempts(t))
                                   /\ \A i \in 1..Len(appended[t]): /\ appended[t][i].task_type = OkAttempts(t)[i].task_type
                                                                    /\ appended[t][i].data_count = Len(Partition(training_data[t], OkAttempts(t)[i].task_type))
                                                                    /\ appended[t][i].success = TRUE
                                   /\ fine_tuning_history = entry_history[t] \o appended[t]
                                   /\ appended[t] # <<>> => Len(history_saves[t]) = 1
                                   /\ history_saves[t] = <<"ok">> => fine_tuning_history_file = Doc(fine_tuning_history)
                                   /\ appended[t] = <<>> => history_saves[t] = <<>> /\ fine_tuning_history_file = entry_file[t]

\* C17 witness: a call with two anomaly examples and one sentiment example
\* has appended two entries after an older one and saved all three.
C17_Witness == /\ tpc[MainThread] = "returned"
               /\ Len(entry_history[MainThread]) = 1
               /\ Len(appended[MainThread]) = 2
               /\ appended[MainThread][1].task_type = "sentiment" /\ appended[MainThread][1].data_count = 1
               /\ appended[MainThread][2].task_type = "anomaly" /\ appended[MainThread][2].data_count = 2
               /\ fine_tuning_history_file = Doc(fine_tuning_history)

\* C18: the history only grows at its end, in memory at every step, and in
\* its document from the entry of a fine_tune call to its return.
C18_HistoryIsAppendOnly == /\ [](\A t \in Threads: tpc[t] = "returned" => IsPrefix(Persisted(entry_file[t]), Persisted(fine_tuning_history_file)))
                           /\ [][IsPrefix(fine_tuning_history, fine_tuning_history')]_all_vars

\* C19: when the two triggers have both completed their fine_tune call and
\* no save failed, every entry either of them appended is in the history
\* in memory and in the history document.
C19_ConcurrentAppendsAllKept == (\A t \in Threads: tpc[t] = "returned") =>
                                    \A t \in Threads: \A i \in 1..Len(appended[t]):
                                        LET e == appended[t][i]
                                            n == Count(e, appended["t1"]) + Count(e, appended["t2"])
                                        IN  /\ Count(e, fine_tuning_history) >= n
                                            /\ Count(e, Persisted(fine_tuning_history_file)) >= n

\* The instants of the entries of a task type (of all entries for "none").
MatchingInstants(history, task_type) == {history[i].timestamp.t : i \in {j \in 1..Len(history): task_type = "none" \/ history[j].task_type = task_type}}

\* C20: get_last_fine_tuning_time returns the greatest instant among the
\* entries whose task_type matches (among all entries without a filter),
\* whatever the order the entries are stored in, and None when the history
\* is empty or no entry matches.
C20_LastTimeIsMaximum == query.asked =>
                             LET S == MatchingInstants(fine_tuning_history, query.task_type)
                             IN  IF S = {} THEN query.result.none
                                 ELSE /\ ~query.result.none
                                      /\ query.result.t \in S
                                      /\ \A x \in S: x <= query.result.t

\* C20 witness: the latest anomaly entry is stored first, before an older
\* anomaly entry whose text has a fraction and before a summary entry.
C20_Witness == /\ query.asked /\ query.task_type = "anomaly"
               /\ Len(fine_tuning_history) = 3
               /\ fine_tuning_history[1].task_type = "anomaly" /\ fine_tuning_history[1].timestamp.t = 20
               /\ fine_tuning_history[2].task_type = "anomaly" /\ fine_tuning_history[2].timestamp.t = 19
               /\ fine_tuning_history[3].task_type = "summary"
               /\ query.result = [none |-> FALSE, t |-> 20]

\* The examples of a task type and status in the output of the latest call.
Anomalies(status) == {i \in 1..Len(classified.out): classified.out[i].task_type = "anomaly" /\ classified.out[i].anomaly_status = status}
Summaries == {i \in 1..Len(classified.out): classified.out[i].task_type = "summary"}

\* The records of the batch of the latest call with a log level.
WithLevel(level) == {i \in 1..Len(classified.logs): classified.logs[i].log_level = Str(level)}

\* The access records of the batch whose status code is a number in lo..hi-1.
WithStatus(lo, hi) == {i \in 1..Len(classified.logs): /\ GetD(classified.logs[i].status_code, Num(0)).k = "num"
                                                      /\ lo <= GetD(classified.logs[i].status_code, Num(0)).n
                                                      /\ GetD(classified.logs[i].status_code, Num(0)).n < hi}

\* The metric records of the batch of a host.
OfHost(host) == {i \in 1..Len(classified.logs): GetD(classified.logs[i].host, Str("unknown")) = host}
BatchHosts == {GetD(classified.logs[i].host, Str("unknown")) : i \in 1..Len(classified.logs)}

\* C22: _process_application_logs returns exactly one critical anomaly per
\* ERROR record, exactly one warning anomaly per WARNING record, and no
\* other anomaly example.
C22_OneAnomalyPerErrorOrWarning == classified.source = "application_logs" =>
                                       /\ ~classified.raises
                                       /\ Cardinality(Anomalies("critical")) = Cardinality(WithLevel("ERROR"))
                                       /\ Cardinality(Anomalies("warning")) = Cardinality(WithLevel("WARNING"))
                                       /\ \A i \in 1..Len(classified.out): classified.out[i].task_type = "anomaly" => classified.out[i].anomaly_status \in {"critical", "warning"}

\* C22 witness: a batch with an ERROR and a WARNING record gave both severities.
C22_Witness == /\ classified.source = "application_logs"
               /\ WithLevel("ERROR") # {} /\ WithLevel("WARNING") # {}
               /\ Anomalies("critical") # {} /\ Anomalies("warning") # {}

\* C23: every summary example of the three entry points comes from a
\* triggering group of at least 10 records (INFO records, success-status
\* access records, the records of the summarised host).
C23_SummaryNeedsTenRecords == \A i \in Summaries:
                                  CASE classified.source = "application_logs" -> Cardinality(WithLevel("INFO")) >= 10
                                    [] classified.source = "nginx_access" -> Cardinality(WithStatus(200, 400)) >= 10
                                    [] classified.source = "system_metrics" -> Cardinality(OfHost(classified.out[i].summary[1])) >= 10

\* C23 amended: a summary of the application or the metrics entry point
\* comes from a group of at least 10 records; the traffic summary of the
\* access entry point comes from at least one success record.
C23_SummaryGroups == \A i \in Summaries:
                         CASE classified.source = "application_logs" -> Cardinality(WithLevel("INFO")) >= 10
                           [] classified.source = "nginx_access" -> Cardinality(WithStatus(200, 400)) >= 1
                           [] classified.source = "system_metrics" -> Cardinality(OfHost(classified.out[i].summary[1])) >= 10

\* C23 witness: a host with exactly ten records got its summary.
C23_Witness == /\ classified.source = "system_metrics"
               /\ \E i \in Summaries: Cardinality(OfHost(classified.out[i].summary[1])) = 10

\* C24: _process_nginx_logs returns exactly one critical anomaly per record
\* with status >= 500, exactly one client-error warning per record with
\* status 400..499, and no summary when no record has a status in 200..399.
C24_OneAnomalyPerErrorStatus == classified.source = "nginx_access" =>
                                    /\ Cardinality(Anomalies("critical")) = Cardinality(WithStatus(500, 1000))
                                    /\ Cardinality({i \in Anomalies("warning"): classified.out[i].detected_issues[1] = "client error"}) = Cardinality(WithStatus(400, 500))
                                    /\ WithStatus(200, 400) = {} => Summaries = {}

\* C25: _process_nginx_logs returns exactly one summary whenever the batch
\* has a success record, and the summary states the number of success records.
C25_OneTrafficSummary == classified.source = "nginx_access" /\ WithStatus(200, 400) # {} =>
                             /\ Cardinality(Summaries) = 1
                             /\ \A i \in Summaries: classified.out[i].summary[1] = Num(Cardinality(WithStatus(200, 400)))

\* C26: _process_system_metrics returns one warning per record with
\* cpu_usage > 80, one critical per record with memory_usage > 90 and one
\* warning per record with disk_usage > 85 (strict), so a single record with
\* only its cpu above the threshold gives exactly one example, a warning.
C26_OneAnomalyPerThreshold == classified.source = "system_metrics" =>
                                  LET Over(field, limit) == {i \in 1..Len(classified.logs): classified.logs[i][field].k = "num" /\ classified.logs[i][field].n > limit}
                                      Issue(text) == {i \in 1..Len(classified.out): classified.out[i].task_type = "anomaly" /\ classified.out[i].detected_issues = <<text>>}
                                  IN  /\ Cardinality(Issue("CPU usage high")) = Cardinality(Over("cpu_usage", 80))
                                      /\ Cardinality(Issue("memory usage high")) = Cardinality(Over("memory_usage", 90))
                                      /\ Cardinality(Issue("disk usage high")) = Cardinality(Over("disk_usage", 85))
                                      /\ Issue("CPU usage high") \cup Issue("disk usage high") = Anomalies("warning")
                                      /\ Issue("memory usage high") = Anomalies("critical")

\* C27: _process_system_metrics returns exactly one summary for each host
\* with at least 10 records whose timestamps parse, and none for a host
\* with fewer than 10 records.
C27_OneSummaryPerLargeHost == classified.source = "system_metrics" =>
                                  \A h \in BatchHosts:
                                      LET n == Cardinality({i \in 1..Len(classified.out): classified.out[i].task_type = "summary" /\ classified.out[i].summary[1] = h})
                                      IN  /\ Cardinality({i \in OfHost(h): classified.logs[i].timestamp.k = "num"}) >= 10 => n = 1
                                          /\ Cardinality(OfHost(h)) < 10 => n = 0

\* C21: a trigger calls fine_tune exactly when the latest-results accessor
\* returned a non-empty set, with exactly that set; otherwise fine_tune is
\* not called and the history is unchanged; the trigger never changes the
\* watermarks or the persisted latest results.
C21_TriggerCallsIffNonEmpty == /\ [](\A t \in Threads:
                                        /\ tpc[t] = "skipped" => log_data.read /\ log_data.value = <<>>
                                        /\ tpc[t] \notin {"idle", "skipped"} => log_data.read /\ log_data.value # <<>> /\ training_data[t] = log_data.value)
                               /\ [][\A t \in Threads: TriggerIdle(t) /\ tpc'[t] # tpc[t] =>
                                        /\ log_data' = [read |-> TRUE, value |-> load_processed_data(processed_data_file).value]
                                        /\ (tpc'[t] = "skipped") = (load_processed_data(processed_data_file).value = <<>>)
                                        /\ tpc'[t] = "skipped" => UNCHANGED <<fine_tuning_history, fine_tuning_history_file, training_data, results, attempts, appended>>
                                        /\ UNCHANGED <<last_processed, last_processed_file, processed_data_file>>]_all_vars

\* C21 witness: a trigger found two latest results and its fine_tune call,
\* made with them, has returned True.
C21_Witness == /\ tpc[MainThread] = "returned" /\ tret[MainThread] = TRUE
               /\ log_data.read /\ Len(log_data.value) = 2
               /\ processed_data_file = Doc(training_data[MainThread])

\* C28: invocations of process_new_logs that run strictly one after another
\* fetch contiguous windows: every window starts at the watermark the
\* invocation found on entry, and when an invocation starts, the watermark
\* of each source the previous invocation queried is the end of the window
\* that invocation queried (overlapping invocations can fetch one range twice).
C28_SequentialWindowsContiguous == /\ [](\A i \in 1..Len(queries[MainThread]): queries[MainThread][i].start = entry_wm[MainThread][queries[MainThread][i].source])
                                   /\ [][Idle(MainThread) /\ pc'[MainThread] = "fetch_app" =>
                                            \A i \in 1..Len(queries[MainThread]):
                                                /\ queries[MainThread][i].source \in DOMAIN last_processed
                                                /\ last_processed[queries[MainThread][i].source] = queries[MainThread][i].end]_vars

\* The records of an index in the range of a query.
InRange(ix, q) == {k \in 1..Len(ix): q.start <= ix[k].timestamp.n /\ ix[k].timestamp.n < q.end}

\* `hits` is the first page of the query q over the index ix: records of the
\* index in the half-open range, none twice, ascending by timestamp, all of
\* them up to the page size, and no record left out is older than one returned.
FirstPage(hits, ix, q) == LET matching == {ix[k] : k \in InRange(ix, q)}
                              returned == {hits[k] : k \in 1..Len(hits)}
                          IN  /\ returned \subseteq matching
                              /\ Cardinality(returned) = Len(hits)
                              /\ \A k \in 1..(Len(hits) - 1): hits[k].timestamp.n <= hits[k + 1].timestamp.n
                              /\ Len(hits) = Min(Cardinality(matching), PageSize)
                              /\ \A r \in matching \ returned: hits[Len(hits)].timestamp.n <= r.timestamp.n

\* C29: each fetch of a pull cycle queries [the source's watermark at the
\* time of the fetch, now) with the one `now` of the cycle, each source is
\* queried once per cycle, and a query that succeeds returns the first page
\* (at most PageSize records) of the range, ascending by timestamp.
C29_FetchQueriesWindow == /\ [](LET t == MainThread
                                    qs == queries[t]
                                IN  /\ \A i \in 1..Len(qs): qs[i].end = now[t] /\ qs[i].source = CycleSources[i]
                                    /\ Len(qs) <= 3
                                    /\ Len(qs) >= 1 /\ qs[1].ok => FirstPage(app_logs[t], index["application_logs"], qs[1])
                                    /\ Len(qs) >= 2 /\ qs[2].ok => FirstPage(nginx_logs[t], index["nginx_access"], qs[2])
                                    /\ Len(qs) >= 3 /\ qs[3].ok => FirstPage(system_metrics[t], index["system_metrics"], qs[3]))
                          /\ [][LET t == MainThread
                                IN  Len(queries'[t]) = Len(queries[t]) + 1 =>
                                        queries'[t][Len(queries'[t])].start = last_processed[queries'[t][Len(queries'[t])].source]]_vars

\* C29 witness: the window held one record more than a page and the query
\* returned a full page.
C29_Witness == /\ Len(queries[MainThread]) = 3 /\ queries[MainThread][1].ok
               /\ Cardinality(InRange(index["application_logs"], queries[MainThread][1])) = PageSize + 1
               /\ Len(app_logs[MainThread]) = PageSize

\* The first thread is inside the loop of start_consuming.
LoopActive == kpc \in {"waiting", "received"}

\* C30: at most one consumer loop is active at any time, and a start call
\* made while a loop is active does not set again the running flag of a
\* loop that was asked to stop and has not exited yet.
C30_AtMostOneLoop == /\ [](~(LoopActive /\ starter = "looping"))
                     /\ [][LoopActive /\ stop_called /\ ~running => ~running']_all_vars

\* C31: for a consumer loop that ends without the stream raising, every
\* record received while running is True is passed to
\* _process_messages_batch in exactly one batch, in arrival order, and no
\* batch holds more than max(1, batch_size) records.  While the loop runs,
\* the batches passed so far followed by the buffer are the records received
\* so far; once the loop is left with nothing lost, the batches passed are
\* exactly the records received.
LoopLeft == kpc \in {"finally", "done"}
MaxBatch == IF batch_size > 1 THEN batch_size ELSE 1
C31_EveryRecordInOneBatch == /\ ~LoopLeft => Flatten(delivery.batches) \o messages_batch = delivery.received
                             /\ (LoopLeft /\ lost = <<>>) => Flatten(delivery.batches) = delivery.received
                             /\ \A i \in 1..Len(delivery.batches): /\ delivery.batches[i] # <<>>
                                                                    /\ Len(delivery.batches[i]) <= MaxBatch

\* Three records were received; the second and the third were passed as
\* one batch of two, after the first; the loop has ended and closed.
C31_Witness == /\ kpc = "done" /\ consumer = "closed" /\ lost = <<>>
               /\ Len(delivery.received) = 3
               /\ Len(delivery.batches) = 2
               /\ Len(delivery.batches[2]) = 2
               /\ delivery.batches[2][1] # delivery.batches[2][2]

\* C32: a flush triggered by a record empties the buffer and sets the
\* last-flush instant to the time read when that record was handled (line
\* 108); the last-flush instant changes at no other step, whether or not the
\* buffer is or becomes empty.
FlushOnArrival == kpc = "received" /\ flushed' # flushed
C32_LastFlushOnlyAtFlush == [][/\ FlushOnArrival => /\ messages_batch' = <<>>
                                                     /\ last_process_time' = IntTime(unix_time)
                                                     /\ last_process_time' = arrival'.current_time
                               /\ last_process_time' # last_process_time => FlushOnArrival]_all_vars

\* A batch of two was flushed one second after the previous flush: the
\* buffer is empty and the last-flush instant is that second.
C32_Witness == /\ arrival.seen /\ arrival.flush /\ arrival.size = 2
               /\ kpc = "waiting" /\ messages_batch = <<>>
               /\ arrival.current_time > arrival.last /\ arrival.last > 0
               /\ last_process_time = arrival.current_time

\* C33 as stated: the first record received after start_consuming is
\* flushed at once as a batch of size one, whatever the batch size.
FirstRecordHandled == kpc = "received" /\ kpc' # "received" /\ ~arrival.seen
FlushedAlone == /\ flushed' # flushed
                /\ flushed'.messages = <<message>>
                /\ messages_batch' = <<>>
C33_FirstRecordFlushedAlone == [][FirstRecordHandled => FlushedAlone]_all_vars

\* C33, amended: the first record handled while running is True finds the
\* timeout reached (the last-flush instant is still 0) and is flushed at
\* once as a batch of size one, whatever the batch size; a first record
\* that arrives after stop_consuming is discarded by the break of line 101.
C33_FirstRunningRecordFlushedAlone == [][/\ (FirstRecordHandled /\ running) => /\ FlushedAlone
                                                                                /\ arrival'.flush /\ arrival'.size = 1 /\ arrival'.last = 0
                                                                                /\ arrival'.current_time - arrival'.last >= batch_timeout
                                         /\ (FirstRecordHandled /\ ~running) => /\ UNCHANGED <<flushed, messages_batch, delivery>>
                                                                                 /\ kpc' = "ended"]_all_vars

\* The first record was flushed alone although the batch size is two.
C33_Witness == /\ arrival.seen /\ arrival.flush /\ arrival.size = 1 /\ arrival.last = 0
               /\ batch_size = 2
               /\ Len(flushed.messages) = 1
               /\ messages_batch = <<>>

\* C34: in a flushed batch the records of type application, nginx-access and
\* beats form the groups application, access and metrics, in arrival order,
\* records of another type are in no group, and the classifier of every
\* non-empty group, and of no empty group, is invoked with its group, also
\* when the classifier of another group of the batch fails.
GroupOf(type) == CASE type = "application" -> "application"
                   [] type = "nginx-access" -> "access"
                   [] type = "beats" -> "metrics"
RoutedTypes == <<"application", "nginx-access", "beats">>
ExpectedCalls(messages) == LET nonempty == SelectSeq(RoutedTypes, LAMBDA k: OfType(messages, k) # <<>>)
                           IN  [i \in 1..Len(nonempty) |-> [group |-> GroupOf(nonempty[i]), logs |-> OfType(messages, nonempty[i])]]
C34_EveryGroupClassified == flushed.invoked = ExpectedCalls(flushed.messages)

\* C35: in the output of each classification entry point every anomaly
\* example precedes every summary example and, in the application and the
\* access output, every critical anomaly precedes every warning.
C35_AnomaliesBeforeSummaries == /\ \A i \in Summaries: \A j \in 1..Len(classified.out):
                                       classified.out[j].task_type = "anomaly" => j < i
                                /\ classified.source \in {"application_logs", "nginx_access"} =>
                                       \A i \in Anomalies("critical"): \A j \in Anomalies("warning"): i < j

\* C36: when the clustering of the INFO records fails, or the hourly
\* resampling of one host fails, the entry point raises nothing and returns
\* every anomaly example of the batch; a host whose resampling failed has no
\* summary and every other host with at least 10 records has its summary.
ClusteringFailed == classified.source = "application_logs" /\ ClusteringReached(classified.logs) /\ classified.lib.failed
LargeHosts == {h \in BatchHosts: Cardinality(OfHost(h)) >= 10}
ResamplingFailed == classified.source = "system_metrics" /\ ~MetricsRaises(classified.logs) /\ LargeHosts \ classified.lib # {}
Crossed(field, limit) == {i \in 1..Len(classified.logs): GetD(classified.logs[i][field], Num(0)).n > limit}
SummariesOf(h) == {i \in Summaries: classified.out[i].summary[1] = h}
C36_ClusteringWitness == /\ ClusteringFailed
                         /\ WithLevel("ERROR") # {}
                         /\ Len(classified.out) = 1

\* C37: _process_application_logs returns no summary when the batch has
\* fewer than 10 INFO records; with n >= 10 INFO records, unless the
\* clustering step raised, every INFO record gets one of min(5, n \div 2)
\* cluster labels, one summary is returned per label in use (at most 5) and
\* the cluster sizes stated in the summaries sum to n; a batch of INFO
\* records only yields summaries only.
RECURSIVE StatedSizes(_)
StatedSizes(out) == IF out = <<>> THEN 0
                    ELSE (IF Head(out).task_type = "summary" THEN Head(out).summary[2].n ELSE 0) + StatedSizes(Tail(out))
C37_SummariesCoverInfoRecords == classified.source = "application_logs" =>
                                     LET n == Cardinality(WithLevel("INFO"))
                                         labels == classified.lib.labels
                                     IN  /\ n < 10 => Summaries = {}
                                         /\ (n >= 10 /\ ~(ClusteringReached(classified.logs) /\ classified.lib.failed)) =>
                                                /\ Len(labels) = n
                                                /\ \A i \in 1..Len(labels): labels[i] \in 0..(Min(5, n \div 2) - 1)
                                                /\ Cardinality(Summaries) = Cardinality({labels[i] : i \in 1..Len(labels)})
                                                /\ Cardinality(Summaries) <= 5
                                                /\ StatedSizes(classified.out) = n
                                         /\ n = Len(classified.logs) => Summaries = 1..Len(classified.out)

\* C38: every summary example of _process_application_logs is the summary
\* of one cluster: its original_text lists (up to 10 of) the INFO records
\* whose messages were given that cluster's label, its stated size is
\* their number and its service is that of the first of them, also when
\* some INFO records of the batch have an empty or missing message.
WithMessage(logs) == SelectSeq(InfoLogs(logs), LAMBDA l: Truthy(Get(l.message)))
MembersOf(cluster_id) == LET recs == WithMessage(classified.logs)
                             ids == SelectSeq([j \in 1..Len(recs) |-> j], LAMBDA j: classified.lib.labels[j] = cluster_id)
                         IN  [j \in 1..Len(ids) |-> recs[ids[j]]]
C38_SummaryListsClusterMembers == classified.source = "application_logs" =>
                                      \A i \in Summaries: \E c \in 0..4: /\ MembersOf(c) # <<>>
                                                                         /\ classified.out[i] = ClusterSummary(MembersOf(c))

\* C39: _process_nginx_logs returns a 'response time delay' warning for a
\* record exactly when its status_code is in 200..399 and its response_time
\* is above 1000, one per such record in input order; such a record is also
\* counted in the traffic summary; a record with status >= 400 gives none.
DelayAnomalies == SelectSeq(classified.out, LAMBDA e: e.task_type = "anomaly" /\ e.detected_issues = <<"response time delay">>)
SlowSuccess == {i \in WithStatus(200, 400): GetD(classified.logs[i].response_time, Num(0)).k = "num" /\ GetD(classified.logs[i].response_time, Num(0)).n > 1000}
C39_DelayIffSlowSuccess == classified.source = "nginx_access" =>
                               /\ Len(DelayAnomalies) = Cardinality(SlowSuccess)
                               /\ \A k \in 1..Len(DelayAnomalies): /\ DelayAnomalies[k].anomaly_status = "warning"
                                                                    /\ \E i \in SlowSuccess: DelayAnomalies[k].log_text = NginxLogText(classified.logs[i])
                               /\ SlowSuccess # {} => /\ Cardinality(Summaries) = 1
                                                       /\ \A i \in Summaries: classified.out[i].summary[1] = Num(Cardinality(WithStatus(200, 400)))

\* C40: the paths listed in the access-log summary are the request paths
\* of the success records with the highest request counts, at most 5, each
\* with its count, in descending count order, equal counts in order of
\* first appearance; no omitted path has a higher count than a listed one,
\* nor the same count and an earlier first appearance.
SuccessPaths == {GetD(classified.logs[i].request_path, Str("")) : i \in WithStatus(200, 400)} \ {Str(""), None}
RequestCount(path) == Cardinality({i \in WithStatus(200, 400): GetD(classified.logs[i].request_path, Str("")) = path})
FirstSeen(path) == CHOOSE i \in WithStatus(200, 400): /\ GetD(classified.logs[i].request_path, Str("")) = path
                                                      /\ \A j \in WithStatus(200, 400): GetD(classified.logs[j].request_path, Str("")) = path => i <= j
RanksBefore(p, q) == RequestCount(p) > RequestCount(q) \/ (RequestCount(p) = RequestCount(q) /\ FirstSeen(p) < FirstSeen(q))
C40_TopPathsByCount == classified.source = "nginx_access" =>
                           \A i \in Summaries:
                               LET top == classified.out[i].summary[2]
                                   listed == {top[k][1] : k \in 1..Len(top)}
                               IN  /\ Len(top) = Min(5, Cardinality(SuccessPaths))
                                   /\ Cardinality(listed) = Len(top)
                                   /\ listed \subseteq SuccessPaths
                                   /\ \A k \in 1..Len(top): top[k][2] = RequestCount(top[k][1])
                                   /\ \A k \in 1..(Len(top) - 1): RanksBefore(top[k][1], top[k + 1][1])
                                   /\ \A p \in listed: \A q \in SuccessPaths \ listed: RanksBefore(p, q)

\* Seven paths were requested with success, three of them twice: the
\* summary lists five, the three of count two first, in order of first
\* appearance, and omits two paths of count one.
C40_Witness == /\ classified.source = "nginx_access"
               /\ Cardinality(SuccessPaths) = 7
               /\ \E i \in Summaries: LET top == classified.out[i].summary[2]
                                        IN  /\ Len(top) = 5
                                            /\ top[1][2] = 2 /\ top[2][2] = 2 /\ top[3][2] = 2 /\ top[4][2] = 1
                                            /\ FirstSeen(top[1][1]) < FirstSeen(top[2][1])
                                            /\ RequestCount(Str("/x")) = 0

====
